---- MODULE Spec2Model ----
(***************************************************************************)
(* The background script of the ActivityWatch Enhanced browser extension   *)
(* (src/browser-extension/src/options.js, lines 176-623): the sampling     *)
(* cycle heartbeat() = getCurrentTabData -> processTabData -> tab count -> *)
(* sendHeartbeat, the bucket-ensure call createBucket, the retry timer,    *)
(* init, and the message handler.  Execution is a single-threaded event    *)
(* loop: every action below is one macrotask (a callback or a promise      *)
(* resolution together with the synchronous code that follows it).         *)
(* Strings are sequences of one-character strings, so that startsWith,     *)
(* includes and URL parsing are computed and not assumed.                  *)
(***************************************************************************)
EXTENDS Integers, Sequences, FiniteSets, Bags, TLC

VARIABLES
  initpc,        \* position of init(): "load", "info", "bucket", "done"
  loadItems,     \* what storage.sync.get of loadSettings read, NoItems before and after
  CONFIG,        \* the CONFIG object
  store,         \* chrome.storage.sync: the persisted keys
  isConnected,   \* let isConnected
  lastHeartbeat, \* let lastHeartbeat
  currentTab,    \* let currentTab
  activeTab,     \* the browser's active tab of the current window, or NoTab
  serverHealthy, \* the server answers every request successfully
  queries,       \* heartbeat() calls waiting for chrome.tabs.query({active..})
  counting,      \* bag of data objects waiting for chrome.tabs.query({})
  posts,         \* bag of heartbeat events whose POST is in flight
  ensures,       \* bag of createBucket() fetches in flight, by caller
  timers,        \* pending setTimeout(createBucket, 10000) timers
  lastEnsure,    \* history: outcome of the latest resolved createBucket()
  hbOkSince      \* history: a heartbeat POST succeeded since lastEnsure = "fail"

vars == <<loadItems, initpc, CONFIG, store, isConnected, lastHeartbeat, currentTab,
          activeTab, serverHealthy, queries, counting, posts, ensures, timers, lastEnsure, hbOkSince>>

(***************************************************************************)
(* Bounds of the model.                                                    *)
(***************************************************************************)
MaxCycles == 2   \* sampling cycles in progress (queries + counting)
MaxPosts == 2    \* heartbeat POSTs in flight
MaxEnsures == 1  \* createBucket() fetches in flight
MaxTimers == 2   \* retry timers pending


(***************************************************************************)
(* String helpers (String.prototype.startsWith / includes / toLowerCase).  *)
(***************************************************************************)
StartsWith(s, p) == Len(s) >= Len(p) /\ SubSeq(s, 1, Len(p)) = p

Includes(s, d) ==
  \E i \in 1..(Len(s) - Len(d) + 1) : SubSeq(s, i, i + Len(d) - 1) = d

LowerMap ==
  [A |-> "a", B |-> "b", C |-> "c", D |-> "d", E |-> "e", F |-> "f", G |-> "g", H |-> "h", I |-> "i", J |-> "j", K |-> "k", L |-> "l", M |-> "m", N |-> "n", O |-> "o", P |-> "p", Q |-> "q", R |-> "r", S |-> "s", T |-> "t", U |-> "u", V |-> "v", W |-> "w", X |-> "x", Y |-> "y", Z |-> "z"]

LowerChar(c) == IF c \in DOMAIN LowerMap THEN LowerMap[c] ELSE c

ToLowerCase(s) == [i \in 1..Len(s) |-> LowerChar(s[i])]

\* index of the first occurrence of character c in s at or after from; 0 if none
IndexFrom(s, c, from) ==
  IF \E i \in from..Len(s) : s[i] = c
    THEN CHOOSE i \in from..Len(s) :
           s[i] = c /\ \A j \in from..(i - 1) : s[j] # c
    ELSE 0

(***************************************************************************)
(* new URL(s): protocol up to and including the first ':'; after "//" the  *)
(* host up to the next '/', lower-cased; the rest is the pathname ("/"     *)
(* when empty).  A string without a scheme throws (Invalid).               *)
(***************************************************************************)
Invalid == [valid |-> FALSE]

ParseURL(s) ==
  LET c == IndexFrom(s, ":", 1) IN
  IF c <= 1 THEN Invalid
  ELSE
    LET rest == SubSeq(s, c + 1, Len(s)) IN
    IF StartsWith(rest, <<"/", "/">>)
      THEN
        LET sl == IndexFrom(rest, "/", 3)
            host == IF sl = 0 THEN SubSeq(rest, 3, Len(rest))
                    ELSE SubSeq(rest, 3, sl - 1)
            path == IF sl = 0 THEN <<"/">> ELSE SubSeq(rest, sl, Len(rest))
        IN [valid |-> TRUE, protocol |-> SubSeq(s, 1, c),
            hostname |-> ToLowerCase(host), pathname |-> path]
      ELSE [valid |-> TRUE, protocol |-> SubSeq(s, 1, c),
            hostname |-> <<>>, pathname |-> rest]

(***************************************************************************)
(* String literals of the source.                                          *)
(***************************************************************************)
sChrome == <<"c", "h", "r", "o", "m", "e", ":", "/", "/">>
sChromeExt == <<"c", "h", "r", "o", "m", "e", "-", "e", "x", "t", "e", "n", "s", "i", "o", "n", ":", "/", "/">>
sAbout == <<"a", "b", "o", "u", "t", ":">>
sMozExt == <<"m", "o", "z", "-", "e", "x", "t", "e", "n", "s", "i", "o", "n", ":", "/", "/">>
sRedacted == <<"[", "r", "e", "d", "a", "c", "t", "e", "d", "]">>
sLocalhost == <<"l", "o", "c", "a", "l", "h", "o", "s", "t">>
sLoopback == <<"1", "2", "7", ".", "0", ".", "0", ".", "1">>
sUnknown == <<"u", "n", "k", "n", "o", "w", "n">>
sClient == <<"a", "w", "-", "w", "a", "t", "c", "h", "e", "r", "-", "w", "e", "b", "-", "e", "n", "h", "a", "n", "c", "e", "d">>

\* values the settings and the browser supply in this model
sHub == <<"h", "u", "b">>
sGithub == <<"G", "i", "t", "H", "u", "b">>
sBadPattern == <<"(">>
sServerHost == <<"p", "c">>
UrlWork == <<"h", "t", "t", "p", "s", ":", "/", "/", "g", "i", "t", "h", "u", "b", ".", "c", "o", "m", "/", "X">>
UrlSub == <<"h", "t", "t", "p", "s", ":", "/", "/", "m", "y", "l", "o", "c", "a", "l", "h", "o", "s", "t", ".", "i", "o", "/">>
UrlInternal == <<"c", "h", "r", "o", "m", "e", ":", "/", "/", "e", "x", "t", "e", "n", "s", "i", "o", "n", "s", "/">>
UrlExt == <<"c", "h", "r", "o", "m", "e", "-", "e", "x", "t", "e", "n", "s", "i", "o", "n", ":", "/", "/", "a", "b", "c", "/", "p", "o", "p", "u", "p", ".", "h", "t", "m", "l">>
UrlAbout == <<"a", "b", "o", "u", "t", ":", "b", "l", "a", "n", "k">>
UrlMoz == <<"m", "o", "z", "-", "e", "x", "t", "e", "n", "s", "i", "o", "n", ":", "/", "/", "a", "b", "c", "/">>
UrlSheet == <<"h", "t", "t", "p", "s", ":", "/", "/", "d", "o", "c", "s", ".", "g", "o", "o", "g", "l", "e", ".", "c", "o", "m", "/", "s", "p", "r", "e", "a", "d", "s", "h", "e", "e", "t", "s", "/", "d", "/", "1">>
UrlDoc == <<"h", "t", "t", "p", "s", ":", "/", "/", "d", "o", "c", "s", ".", "g", "o", "o", "g", "l", "e", ".", "c", "o", "m", "/", "d", "o", "c", "u", "m", "e", "n", "t", "/", "d", "/", "1">>
UrlPull == <<"h", "t", "t", "p", "s", ":", "/", "/", "g", "i", "t", "h", "u", "b", ".", "c", "o", "m", "/", "u", "s", "e", "r", "/", "r", "e", "p", "o", "/", "p", "u", "l", "l", "/", "1", "2", "3">>
UrlIssue == <<"h", "t", "t", "p", "s", ":", "/", "/", "g", "i", "t", "h", "u", "b", ".", "c", "o", "m", "/", "u", "s", "e", "r", "/", "r", "e", "p", "o", "/", "i", "s", "s", "u", "e", "s", "/", "1">>
UrlBoth == <<"h", "t", "t", "p", "s", ":", "/", "/", "g", "i", "s", "t", ".", "g", "i", "t", "h", "u", "b", ".", "c", "o", "m", "/", "i", "s", "s", "u", "e", "s", "/", "1", "/", "p", "u", "l", "l", "/", "2">>
UrlRepo == <<"h", "t", "t", "p", "s", ":", "/", "/", "g", "i", "t", "h", "u", "b", ".", "c", "o", "m", "/", "u", "s", "e", "r", "/", "r", "e", "p", "o">>
UrlUnknown == <<"h", "t", "t", "p", "s", ":", "/", "/", "u", "n", "k", "n", "o", "w", "n", "-", "d", "o", "m", "a", "i", "n", ".", "e", "x", "a", "m", "p", "l", "e", "/">>

Null == "null"
Now == "now"
NoTab == "none"
NumTabs == 3   \* tabs.length reported by chrome.tabs.query({})

(***************************************************************************)
(* The tabs the browser can report as the active one.  An absent url is    *)
(* the empty string (!tab.url holds for both).                             *)
(***************************************************************************)
TabNames == {"work", "sub", "incog", "internal", "nourl", "ext", "about", "moz"}

Tab(n) ==
  CASE n = "work" ->
         [url |-> UrlWork, title |-> "Repo", incognito |-> FALSE, audible |-> FALSE]
    [] n = "sub" ->
         [url |-> UrlSub, title |-> "Dev", incognito |-> FALSE, audible |-> TRUE]
    [] n = "incog" ->
         [url |-> UrlWork, title |-> "Repo", incognito |-> TRUE, audible |-> FALSE]
    [] n = "internal" ->
         [url |-> UrlInternal, title |-> "Extensions", incognito |-> FALSE,
          audible |-> FALSE]
    [] n = "nourl" ->
         [url |-> <<>>, title |-> "", incognito |-> FALSE, audible |-> FALSE]
    [] n = "ext" ->
         [url |-> UrlExt, title |-> "Popup", incognito |-> FALSE, audible |-> FALSE]
    [] n = "about" ->
         [url |-> UrlAbout, title |-> "", incognito |-> TRUE, audible |-> FALSE]
    [] n = "moz" ->
         [url |-> UrlMoz, title |-> "Addon", incognito |-> FALSE, audible |-> FALSE]
    [] n = "sheet" ->
         [url |-> UrlSheet, title |-> "Sheet", incognito |-> FALSE, audible |-> FALSE]
    [] n = "doc" ->
         [url |-> UrlDoc, title |-> "Doc", incognito |-> FALSE, audible |-> FALSE]
    [] n = "pull" ->
         [url |-> UrlPull, title |-> "PR", incognito |-> FALSE, audible |-> FALSE]
    [] n = "issue" ->
         [url |-> UrlIssue, title |-> "Issue", incognito |-> FALSE, audible |-> FALSE]
    [] n = "both" ->
         [url |-> UrlBoth, title |-> "Both", incognito |-> FALSE, audible |-> FALSE]
    [] n = "repo" ->
         [url |-> UrlRepo, title |-> "Repo", incognito |-> FALSE, audible |-> FALSE]
    [] n = "unknown" ->
         [url |-> UrlUnknown, title |-> "Page", incognito |-> FALSE, audible |-> FALSE]

(***************************************************************************)
(* const CONFIG = {...} as the script sets it at load; bucketId null is    *)
(* the empty sequence (no bucket id the script builds is empty).           *)
(***************************************************************************)
NullId == <<>>

DefaultConfig ==
  [serverUrl |-> "http://localhost:5600",
   pollInterval |-> 5000,
   pulsetime |-> 6,
   bucketId |-> NullId,
   enabled |-> TRUE,
   trackUrls |-> TRUE,
   trackTitles |-> TRUE,
   excludePatterns |-> <<>>,
   excludeDomains |-> <<sLocalhost, sLoopback>>,
   incognitoTracking |-> FALSE]

\* the keys loadSettings asks the store for
LoadKeys == {"serverUrl", "enabled", "trackUrls", "trackTitles",
             "excludePatterns", "excludeDomains", "incognitoTracking"}

\* the get of loadSettings has not been served, or its callback has run
NoItems == [none |-> TRUE]

\* Object.assign(target, source)
Assign(target, source) ==
  [k \in (DOMAIN target) \cup (DOMAIN source) |->
     IF k \in DOMAIN source THEN source[k] ELSE target[k]]

\* chrome.storage.sync.get(defaults): the stored value, else the default
StorageGet(st, defaults) ==
  [k \in DOMAIN defaults |-> IF k \in DOMAIN st THEN st[k] ELSE defaults[k]]

\* what the store can hold when the extension starts
StoreInputs ==
  { [serverUrl |-> "http://localhost:5600"],
    [incognitoTracking |-> TRUE],
    [excludeDomains |-> <<sHub>>, trackUrls |-> FALSE],
    [excludeDomains |-> <<>>, excludePatterns |-> <<sBadPattern, sGithub>>,
     trackTitles |-> FALSE] }

\* the settings objects a saveSettings message can carry
SettingsInputs ==
  { [incognitoTracking |-> TRUE, excludeDomains |-> <<>>],
    [excludeDomains |-> <<sLocalhost, sLoopback>>,
     incognitoTracking |-> FALSE] }

(***************************************************************************)
(* new RegExp(p, 'i').test(s) for the patterns of this model: a source of  *)
(* literal characters matches when s contains it, case-insensitively; a    *)
(* source with an unclosed '(' does not compile (the constructor throws).  *)
(***************************************************************************)
RegExpCompiles(p) ==
  Cardinality({i \in 1..Len(p) : p[i] = "("}) =
  Cardinality({i \in 1..Len(p) : p[i] = ")"})

RegExpTest(p, s) == Includes(ToLowerCase(s), ToLowerCase(p))

\* response.ok
ResponseOk(r) == r.kind = "http" /\ r.status >= 200 /\ r.status <= 299

\* createBucket: response.ok || response.status === 304; a rejected fetch throws
BucketSuccess(r) == ResponseOk(r) \/ (r.kind = "http" /\ r.status = 304)

\* faulty variant: the heartbeat accepts 304 as createBucket does
HeartbeatSuccess_Accepts304(r) ==
  ResponseOk(r) \/ (r.kind = "http" /\ r.status = 304)

\* sendHeartbeat: !response.ok throws; a rejected fetch throws
HeartbeatSuccess(r) == ResponseOk(r)

\* what a fetch can resolve with
AllResponses ==
  {[kind |-> "error", status |-> 0]} \cup
  {[kind |-> "http", status |-> s] : s \in {200, 304, 500}}

\* a healthy server creates the bucket (200) or reports it exists (304)
BucketResponses(healthy) ==
  IF healthy THEN {[kind |-> "http", status |-> s] : s \in {200, 304}}
  ELSE AllResponses

\* a healthy server accepts the heartbeat
HeartbeatResponses(healthy) ==
  IF healthy THEN {[kind |-> "http", status |-> 200]} ELSE AllResponses

(***************************************************************************)
(* getCurrentTabData: the callback of chrome.tabs.query({active: true,     *)
(* currentWindow: true}); resolves the tab or null.                        *)
(***************************************************************************)
\* faulty variant: the about: scheme is not in the list
IsInternalUrl_NoAbout(url) ==
  \/ Len(url) = 0
  \/ StartsWith(url, sChrome)
  \/ StartsWith(url, sChromeExt)
  \/ StartsWith(url, sMozExt)

IsInternalUrl(url) ==
  \/ Len(url) = 0
  \/ StartsWith(url, sChrome)
  \/ StartsWith(url, sChromeExt)
  \/ StartsWith(url, sAbout)
  \/ StartsWith(url, sMozExt)

\* faulty variant: the incognito check is missing
getCurrentTabData_NoIncognitoCheck(active, cfg) ==
  IF active = NoTab THEN Null
  ELSE IF IsInternalUrl(Tab(active).url) THEN Null
  ELSE active

getCurrentTabData(active, cfg) ==
  IF active = NoTab THEN Null
  ELSE IF Tab(active).incognito /\ ~cfg.incognitoTracking THEN Null
  ELSE IF IsInternalUrl(Tab(active).url) THEN Null
  ELSE active

(***************************************************************************)
(* categorizeDomain(hostname, path): the ordered rule table; the first     *)
(* entry whose domain test matches decides, by its first matching path     *)
(* sub-rule or its base label.  null when no entry matches.                *)
(***************************************************************************)
categorizeRules(domain, path) ==
  LET D(s) == Includes(domain, s)
      P(s) == Includes(path, s)
  IN
  IF D(<<"g", "i", "t", "h", "u", "b", ".", "c", "o", "m">>)
    THEN IF P(<<"/", "p", "u", "l", "l", "/">>) THEN "Work/Development/Code Review" ELSE
         IF P(<<"/", "i", "s", "s", "u", "e", "s", "/">>) THEN "Work/Development/Issues" ELSE
         "Work/Development"
  ELSE
  IF D(<<"g", "i", "t", "l", "a", "b", ".", "c", "o", "m">>)
       \/ D(<<"b", "i", "t", "b", "u", "c", "k", "e", "t", ".", "o", "r", "g">>)
    THEN "Work/Development"
  ELSE
  IF D(<<"s", "t", "a", "c", "k", "o", "v", "e", "r", "f", "l", "o", "w", ".", "c", "o", "m">>)
       \/ D(<<"s", "t", "a", "c", "k", "e", "x", "c", "h", "a", "n", "g", "e", ".", "c", "o", "m">>)
    THEN "Work/Development/Research"
  ELSE
  IF D(<<"d", "o", "c", "s", ".">>)
       \/ D(<<"d", "o", "c", "u", "m", "e", "n", "t", "a", "t", "i", "o", "n", ".">>)
       \/ D(<<"d", "e", "v", "e", "l", "o", "p", "e", "r", ".">>)
       \/ D(<<"d", "e", "v", "d", "o", "c", "s", ".", "i", "o">>)
    THEN "Work/Development/Documentation"
  ELSE
  IF D(<<"m", "a", "i", "l", ".", "g", "o", "o", "g", "l", "e", ".", "c", "o", "m">>)
       \/ D(<<"o", "u", "t", "l", "o", "o", "k", ".">>)
       \/ D(<<"m", "a", "i", "l", ".", "y", "a", "h", "o", "o", ".", "c", "o", "m">>)
    THEN "Work/Communication/Email"
  ELSE
  IF D(<<"s", "l", "a", "c", "k", ".", "c", "o", "m">>)
       \/ D(<<"d", "i", "s", "c", "o", "r", "d", ".", "c", "o", "m">>)
       \/ D(<<"t", "e", "a", "m", "s", ".", "m", "i", "c", "r", "o", "s", "o", "f", "t", ".", "c", "o", "m">>)
    THEN "Work/Communication/Chat"
  ELSE
  IF D(<<"m", "e", "e", "t", ".", "g", "o", "o", "g", "l", "e", ".", "c", "o", "m">>)
       \/ D(<<"z", "o", "o", "m", ".", "u", "s">>)
       \/ D(<<"w", "e", "b", "e", "x", ".", "c", "o", "m">>)
    THEN "Work/Communication/Meetings"
  ELSE
  IF D(<<"j", "i", "r", "a">>)
       \/ D(<<"a", "s", "a", "n", "a", ".", "c", "o", "m">>)
       \/ D(<<"t", "r", "e", "l", "l", "o", ".", "c", "o", "m">>)
       \/ D(<<"m", "o", "n", "d", "a", "y", ".", "c", "o", "m">>)
       \/ D(<<"l", "i", "n", "e", "a", "r", ".", "a", "p", "p">>)
       \/ D(<<"n", "o", "t", "i", "o", "n", ".", "s", "o">>)
    THEN "Work/Project Management"
  ELSE
  IF D(<<"d", "o", "c", "s", ".", "g", "o", "o", "g", "l", "e", ".", "c", "o", "m">>)
    THEN IF P(<<"/", "d", "o", "c", "u", "m", "e", "n", "t", "/">>) THEN "Work/Documentation/Writing" ELSE
         IF P(<<"/", "s", "p", "r", "e", "a", "d", "s", "h", "e", "e", "t", "s", "/">>) THEN "Work/Data/Spreadsheets" ELSE
         IF P(<<"/", "p", "r", "e", "s", "e", "n", "t", "a", "t", "i", "o", "n", "/">>) THEN "Work/Presentation" ELSE
         "Work/Documentation"
  ELSE
  IF D(<<"d", "r", "i", "v", "e", ".", "g", "o", "o", "g", "l", "e", ".", "c", "o", "m">>)
    THEN "Work/Files"
  ELSE
  IF D(<<"f", "i", "g", "m", "a", ".", "c", "o", "m">>)
       \/ D(<<"c", "a", "n", "v", "a", ".", "c", "o", "m">>)
       \/ D(<<"s", "k", "e", "t", "c", "h", ".", "c", "o", "m">>)
    THEN "Work/Design"
  ELSE
  IF D(<<"t", "w", "i", "t", "t", "e", "r", ".", "c", "o", "m">>)
       \/ D(<<"x", ".", "c", "o", "m">>)
       \/ D(<<"f", "a", "c", "e", "b", "o", "o", "k", ".", "c", "o", "m">>)
       \/ D(<<"i", "n", "s", "t", "a", "g", "r", "a", "m", ".", "c", "o", "m">>)
       \/ D(<<"l", "i", "n", "k", "e", "d", "i", "n", ".", "c", "o", "m">>)
       \/ D(<<"r", "e", "d", "d", "i", "t", ".", "c", "o", "m">>)
    THEN "Personal/Social Media"
  ELSE
  IF D(<<"y", "o", "u", "t", "u", "b", "e", ".", "c", "o", "m">>)
       \/ D(<<"n", "e", "t", "f", "l", "i", "x", ".", "c", "o", "m">>)
       \/ D(<<"t", "w", "i", "t", "c", "h", ".", "t", "v">>)
       \/ D(<<"s", "p", "o", "t", "i", "f", "y", ".", "c", "o", "m">>)
       \/ D(<<"h", "u", "l", "u", ".", "c", "o", "m">>)
       \/ D(<<"d", "i", "s", "n", "e", "y", "p", "l", "u", "s", ".", "c", "o", "m">>)
    THEN "Personal/Entertainment"
  ELSE
  IF D(<<"a", "m", "a", "z", "o", "n", ".">>)
       \/ D(<<"e", "b", "a", "y", ".">>)
       \/ D(<<"e", "t", "s", "y", ".", "c", "o", "m">>)
       \/ D(<<"s", "h", "o", "p", "i", "f", "y", ".", "c", "o", "m">>)
    THEN "Personal/Shopping"
  ELSE
  IF D(<<"n", "e", "w", "s", ".">>)
       \/ D(<<"c", "n", "n", ".", "c", "o", "m">>)
       \/ D(<<"b", "b", "c", ".">>)
       \/ D(<<"n", "y", "t", "i", "m", "e", "s", ".", "c", "o", "m">>)
       \/ D(<<"t", "h", "e", "g", "u", "a", "r", "d", "i", "a", "n", ".", "c", "o", "m">>)
    THEN "Personal/News"
  ELSE
  IF D(<<"u", "d", "e", "m", "y", ".", "c", "o", "m">>)
       \/ D(<<"c", "o", "u", "r", "s", "e", "r", "a", ".", "o", "r", "g">>)
       \/ D(<<"e", "d", "x", ".", "o", "r", "g">>)
       \/ D(<<"l", "i", "n", "k", "e", "d", "i", "n", ".", "c", "o", "m", "/", "l", "e", "a", "r", "n", "i", "n", "g">>)
       \/ D(<<"p", "l", "u", "r", "a", "l", "s", "i", "g", "h", "t", ".", "c", "o", "m">>)
    THEN "Research/Learning"
  ELSE
  Null

\* faulty variant: the /issues/ sub-rule is tested before /pull/
categorizeDomain_IssuesFirst(hostname, path) ==
  IF /\ Includes(ToLowerCase(hostname), <<"g", "i", "t", "h", "u", "b", ".", "c", "o", "m">>)
     /\ Includes(path, <<"/", "i", "s", "s", "u", "e", "s", "/">>)
    THEN "Work/Development/Issues"
    ELSE categorizeRules(ToLowerCase(hostname), path)

\* faulty variant: a hostname no rule matches gets a default label
categorizeDomain_DefaultLabel(hostname, path) ==
  IF categorizeRules(ToLowerCase(hostname), path) = Null
    THEN "Uncategorized"
    ELSE categorizeRules(ToLowerCase(hostname), path)

\* faulty variant: the hostname is not lower-cased
categorizeDomain_CaseSensitive(hostname, path) == categorizeRules(hostname, path)

\* faulty variant: the more specific docs.google.com rule is tried first
categorizeDomain_SpecificFirst(hostname, path) ==
  IF Includes(ToLowerCase(hostname), <<"d", "o", "c", "s", ".", "g", "o", "o", "g", "l", "e", ".", "c", "o", "m">>)
    THEN IF Includes(path, <<"/", "d", "o", "c", "u", "m", "e", "n", "t", "/">>) THEN "Work/Documentation/Writing" ELSE
         IF Includes(path, <<"/", "s", "p", "r", "e", "a", "d", "s", "h", "e", "e", "t", "s", "/">>) THEN "Work/Data/Spreadsheets" ELSE
         IF Includes(path, <<"/", "p", "r", "e", "s", "e", "n", "t", "a", "t", "i", "o", "n", "/">>) THEN "Work/Presentation" ELSE
         "Work/Documentation"
    ELSE categorizeRules(ToLowerCase(hostname), path)

\* const domain = hostname.toLowerCase(); then the rule table
categorizeDomain(hostname, path) == categorizeRules(ToLowerCase(hostname), path)

(***************************************************************************)
(* processTabData: the data object of the event, or null.                  *)
(***************************************************************************)
NullData == [null |-> TRUE]

\* faulty variant: the hostname must equal the entry
DomainExcluded_ExactMatch(hostname, cfg) ==
  \E i \in DOMAIN cfg.excludeDomains : hostname = cfg.excludeDomains[i]

DomainExcluded(hostname, cfg) ==
  \E i \in DOMAIN cfg.excludeDomains : Includes(hostname, cfg.excludeDomains[i])

\* faulty variant: the 'i' flag is missing, patterns match case-sensitively
PatternExcluded_CaseSensitive(url, cfg) ==
  \E i \in DOMAIN cfg.excludePatterns :
    /\ RegExpCompiles(cfg.excludePatterns[i])
    /\ Includes(url, cfg.excludePatterns[i])

\* faulty variant: the inner try/catch is missing, a pattern that does not compile
\* throws into processTabData's outer catch, which returns null
PatternExcluded_ThrowBlocks(url, cfg) ==
  \E i \in DOMAIN cfg.excludePatterns :
    \/ ~RegExpCompiles(cfg.excludePatterns[i])
    \/ RegExpTest(cfg.excludePatterns[i], url)

PatternExcluded(url, cfg) ==
  \E i \in DOMAIN cfg.excludePatterns :
    /\ RegExpCompiles(cfg.excludePatterns[i])
    /\ RegExpTest(cfg.excludePatterns[i], url)

\* faulty variant: the event is built and sent on before it is categorized
processTabData_CategoryUnset(tab, cfg) ==
  IF Len(tab.url) = 0 THEN NullData
  ELSE
    LET url == ParseURL(tab.url) IN
    IF ~url.valid THEN NullData
    ELSE IF DomainExcluded(url.hostname, cfg) THEN NullData
    ELSE IF PatternExcluded(tab.url, cfg) THEN NullData
    ELSE [url |-> IF cfg.trackUrls THEN tab.url ELSE sRedacted,
          title |-> IF cfg.trackTitles THEN tab.title ELSE "[redacted]",
          domain |-> url.hostname,
          incognito |-> tab.incognito,
          tabCount |-> 0,
          audible |-> tab.audible,
          protocol |-> SelectSeq(url.protocol, LAMBDA c : c # ":"),
          path |-> url.pathname,
          category |-> Null]

\* faulty variant: the title is sent whatever trackTitles says
processTabData_TitleNotRedacted(tab, cfg) ==
  IF Len(tab.url) = 0 THEN NullData
  ELSE
    LET url == ParseURL(tab.url) IN
    IF ~url.valid THEN NullData
    ELSE IF DomainExcluded(url.hostname, cfg) THEN NullData
    ELSE IF PatternExcluded(tab.url, cfg) THEN NullData
    ELSE [url |-> IF cfg.trackUrls THEN tab.url ELSE sRedacted,
          title |-> tab.title,
          domain |-> url.hostname,
          incognito |-> tab.incognito,
          tabCount |-> 0,
          audible |-> tab.audible,
          protocol |-> SelectSeq(url.protocol, LAMBDA c : c # ":"),
          path |-> url.pathname,
          category |-> categorizeDomain(url.hostname, url.pathname)]

processTabData(tab, cfg) ==
  IF Len(tab.url) = 0 THEN NullData
  ELSE
    LET url == ParseURL(tab.url) IN
    IF ~url.valid THEN NullData
    ELSE IF DomainExcluded(url.hostname, cfg) THEN NullData
    ELSE IF PatternExcluded(tab.url, cfg) THEN NullData
    ELSE [url |-> IF cfg.trackUrls THEN tab.url ELSE sRedacted,
          title |-> IF cfg.trackTitles THEN tab.title ELSE "[redacted]",
          domain |-> url.hostname,
          incognito |-> tab.incognito,
          tabCount |-> 0,
          audible |-> tab.audible,
          protocol |-> SelectSeq(url.protocol, LAMBDA c : c # ":"),
          path |-> url.pathname,
          category |-> categorizeDomain(url.hostname, url.pathname)]

\* the event sendHeartbeat posts for data
HeartbeatEvent(data) ==
  [timestamp |-> Now, duration |-> 0, data |-> data,
   server |-> CONFIG.serverUrl, bucket |-> CONFIG.bucketId]

\* the reply to a getStatus message
StatusReply ==
  [enabled |-> CONFIG.enabled, connected |-> isConnected,
   lastHeartbeat |-> lastHeartbeat, currentUrl |-> IF currentTab = Null THEN Null ELSE Tab(currentTab).url,
   bucketId |-> CONFIG.bucketId]

(***************************************************************************)
(* State after the script has loaded and init() has called loadSettings(): *)
(* the message listener is registered, nothing is in flight.               *)
(***************************************************************************)
InitWith(stores, tabs) ==
  /\ initpc = "load"
  /\ loadItems = NoItems
  /\ CONFIG = DefaultConfig
  /\ store \in stores
  /\ isConnected = FALSE
  /\ lastHeartbeat = Null
  /\ currentTab = Null
  /\ activeTab \in tabs \cup {NoTab}
  /\ serverHealthy \in BOOLEAN
  /\ queries = 0
  /\ counting = EmptyBag
  /\ posts = EmptyBag
  /\ ensures = EmptyBag
  /\ timers = 0
  /\ lastEnsure = "none"
  /\ hbOkSince = FALSE

One(x) == SetToBag({x})

Cycles == queries + BagCardinality(counting)

\* heartbeat() up to its first await: one more chrome.tabs.query pending
StartCycle == queries' = queries + 1

\* the listeners init registers after createBucket() has resolved
Listening == initpc = "done"

(***************************************************************************)
(* createBucket() up to its await.  With CONFIG.bucketId null the body     *)
(* expression CONFIG.bucketId.split throws inside the try, before fetch is *)
(* called: the catch sets isConnected = false and nothing is in flight.    *)
(***************************************************************************)
\* faulty variant: an attempt in flight shows as not connected (a Checking state)
createBucketStart_Checking(caller, bucketId) ==
  /\ isConnected' = FALSE
  /\ IF bucketId = NullId
       THEN lastEnsure' = "fail" /\ hbOkSince' = FALSE /\ UNCHANGED ensures
       ELSE ensures' = ensures (+) One(caller) /\ UNCHANGED <<lastEnsure, hbOkSince>>

\* faulty variant: the request goes out also while the bucket id is null
createBucketStart_NullIdInFlight(caller, bucketId) ==
  /\ ensures' = ensures (+) One(caller)
  /\ UNCHANGED <<isConnected, lastEnsure, hbOkSince>>

createBucketStart(caller, bucketId) ==
  IF bucketId = NullId
    THEN /\ isConnected' = FALSE
         /\ lastEnsure' = "fail"
         /\ hbOkSince' = FALSE
         /\ UNCHANGED ensures
    ELSE /\ ensures' = ensures (+) One(caller)
         /\ UNCHANGED <<isConnected, lastEnsure, hbOkSince>>

(***************************************************************************)
(* init(): loadSettings resolves, then getHostname() is called.            *)
(***************************************************************************)
\* the browser serves the storage.sync.get that loadSettings issued when the
\* script started: the stored values of that moment, else the defaults
StorageGetServed ==
  /\ initpc = "load"
  /\ loadItems = NoItems
  /\ loadItems' = StorageGet(store, [k \in LoadKeys |-> DefaultConfig[k]])
  /\ UNCHANGED <<initpc, CONFIG, store, isConnected, lastHeartbeat, currentTab, activeTab,
                 serverHealthy, queries, counting, posts, ensures, timers, lastEnsure, hbOkSince>>

\* the callback of that get: Object.assign(CONFIG, items); resolve()
LoadSettingsDone ==
  /\ initpc = "load"
  /\ loadItems # NoItems
  /\ CONFIG' = Assign(CONFIG, loadItems)
  /\ loadItems' = NoItems
  /\ initpc' = "info"
  /\ UNCHANGED <<store, isConnected, lastHeartbeat, currentTab, activeTab,
                 serverHealthy, queries, counting, posts, ensures, timers, lastEnsure, hbOkSince>>

\* getHostname(): data.hostname || 'unknown', 'unknown' when fetch or json() throws
sUnderscoreHost == <<"m", "y", "_", "p", "c">>
ServerHosts == {sServerHost, sUnderscoreHost}

HostnameResults(healthy) ==
  IF healthy THEN ServerHosts ELSE ServerHosts \cup {sUnknown}

\* s.split(sep) for a one-character separator: the pieces, in order
RECURSIVE Split(_, _)
Split(s, sep) ==
  IF \A i \in DOMAIN s : s[i] # sep THEN <<s>>
  ELSE LET i == CHOOSE k \in DOMAIN s : s[k] = sep /\ \A j \in 1..(k - 1) : s[j] # sep
       IN <<SubSeq(s, 1, i - 1)>> \o Split(SubSeq(s, i + 1, Len(s)), sep)

\* the body createBucket() posts; hostname is CONFIG.bucketId.split('_')[1]
createBucketBody(cfg) ==
  [client |-> sClient,
   type |-> "web.tab.current",
   hostname |-> Split(cfg.bucketId, "_")[2]]

\* init(): getHostname resolves, bucketId is set, createBucket() is called
GetHostnameDone(h) ==
  /\ initpc = "info"
  /\ h \in HostnameResults(serverHealthy)
  /\ CONFIG' = [CONFIG EXCEPT !.bucketId = sClient \o <<"_">> \o h]
  /\ ensures' = ensures (+) One("init")
  /\ initpc' = "bucket"
  /\ BagCardinality(ensures) < MaxEnsures
  /\ UNCHANGED <<loadItems, store, isConnected, lastHeartbeat, currentTab, activeTab,
                 serverHealthy, queries, counting, posts, timers, lastEnsure, hbOkSince>>

(***************************************************************************)
(* createBucket(): the fetch resolves.  For init's call the rest of init   *)
(* runs in the same task: startHeartbeatLoop() (one heartbeat(), the       *)
(* alarm) and the three listeners.                                         *)
(***************************************************************************)
\* faulty variant: a successful createBucket() also stamps lastHeartbeat
createBucketDone_StampsHeartbeat(caller, r) ==
  /\ BagIn(caller, ensures)
  /\ r \in BucketResponses(serverHealthy)
  /\ ensures' = ensures (-) One(caller)
  /\ isConnected' = BucketSuccess(r)
  /\ lastHeartbeat' = IF BucketSuccess(r) THEN Now ELSE lastHeartbeat
  /\ lastEnsure' = IF BucketSuccess(r) THEN "ok" ELSE "fail"
  /\ hbOkSince' = FALSE
  /\ IF caller = "init"
       THEN /\ Cycles < MaxCycles
            /\ initpc' = "done"
            /\ StartCycle
       ELSE UNCHANGED <<initpc, queries>>
  /\ UNCHANGED <<loadItems, CONFIG, store, currentTab, activeTab,
                 serverHealthy, counting, posts, timers>>

\* faulty variant: a failed createBucket() ends init (no alarm, no listeners)
createBucketDone_FailureAbortsInit(caller, r) ==
  /\ BagIn(caller, ensures)
  /\ r \in BucketResponses(serverHealthy)
  /\ ensures' = ensures (-) One(caller)
  /\ isConnected' = BucketSuccess(r)
  /\ lastEnsure' = IF BucketSuccess(r) THEN "ok" ELSE "fail"
  /\ hbOkSince' = FALSE
  /\ IF caller = "init"
       THEN IF BucketSuccess(r)
              THEN /\ Cycles < MaxCycles
                   /\ initpc' = "done"
                   /\ StartCycle
              ELSE initpc' = "aborted" /\ UNCHANGED queries
       ELSE UNCHANGED <<initpc, queries>>
  /\ UNCHANGED <<loadItems, CONFIG, store, lastHeartbeat, currentTab, activeTab,
                 serverHealthy, counting, posts, timers>>

createBucketDone(caller, r) ==
  /\ BagIn(caller, ensures)
  /\ r \in BucketResponses(serverHealthy)
  /\ ensures' = ensures (-) One(caller)
  /\ isConnected' = BucketSuccess(r)
  /\ lastEnsure' = IF BucketSuccess(r) THEN "ok" ELSE "fail"
  /\ hbOkSince' = FALSE
  /\ IF caller = "init"
       THEN /\ Cycles < MaxCycles
            /\ initpc' = "done"
            /\ StartCycle
       ELSE UNCHANGED <<initpc, queries>>
  /\ UNCHANGED <<loadItems, CONFIG, store, lastHeartbeat, currentTab, activeTab,
                 serverHealthy, counting, posts, timers>>

\* setTimeout(createBucket, 10000) fires
RetryTimerFires ==
  /\ timers > 0
  /\ timers' = timers - 1
  /\ BagCardinality(ensures) < MaxEnsures
  /\ createBucketStart("retry", CONFIG.bucketId)
  /\ UNCHANGED <<loadItems, initpc, CONFIG, store, lastHeartbeat, currentTab, activeTab,
                 serverHealthy, queries, counting, posts>>

(***************************************************************************)
(* heartbeat(): the callback of the active-tab query, then processTabData, *)
(* the call of chrome.tabs.query({}) and currentTab = tab.                 *)
(***************************************************************************)
\* faulty variant: currentTab is set before processTabData has filtered the tab
heartbeatFilter_TabBeforeFilter ==
  /\ queries > 0
  /\ queries' = queries - 1
  /\ LET tab == getCurrentTabData(activeTab, CONFIG) IN
     IF tab = Null
       THEN UNCHANGED <<counting, currentTab>>
       ELSE LET data == processTabData(Tab(tab), CONFIG) IN
            /\ currentTab' = tab
            /\ IF data = NullData
                 THEN UNCHANGED counting
                 ELSE counting' = counting (+) One(data)
  /\ UNCHANGED <<loadItems, initpc, CONFIG, store, isConnected, lastHeartbeat, activeTab,
                 serverHealthy, posts, ensures, timers, lastEnsure, hbOkSince>>

heartbeatFilter ==
  /\ queries > 0
  /\ queries' = queries - 1
  /\ LET tab == getCurrentTabData(activeTab, CONFIG) IN
     IF tab = Null
       THEN UNCHANGED <<counting, currentTab>>
       ELSE LET data == processTabData(Tab(tab), CONFIG) IN
            IF data = NullData
              THEN UNCHANGED <<counting, currentTab>>
              ELSE /\ counting' = counting (+) One(data)
                   /\ currentTab' = tab
  /\ UNCHANGED <<loadItems, initpc, CONFIG, store, isConnected, lastHeartbeat, activeTab,
                 serverHealthy, posts, ensures, timers, lastEnsure, hbOkSince>>

(***************************************************************************)
(* sendHeartbeat(data) up to its await: returns at once when disabled or   *)
(* not connected, else the POST is in flight.                              *)
(***************************************************************************)
\* faulty variant: the guard forgets the connection state
sendHeartbeatStart_NoConnectedCheck(data) ==
  IF ~CONFIG.enabled
    THEN UNCHANGED posts
    ELSE /\ BagCardinality(posts) < MaxPosts
         /\ posts' = posts (+) One(HeartbeatEvent(data))

\* faulty variant: an event equal to one already in flight is not sent again
sendHeartbeatStart_Dedup(data) ==
  IF ~CONFIG.enabled \/ ~isConnected \/ BagIn(HeartbeatEvent(data), posts)
    THEN UNCHANGED posts
    ELSE /\ BagCardinality(posts) < MaxPosts
         /\ posts' = posts (+) One(HeartbeatEvent(data))

\* faulty variant: the guard forgets CONFIG.enabled
sendHeartbeatStart_NoEnabledCheck(data) ==
  IF ~isConnected
    THEN UNCHANGED posts
    ELSE /\ BagCardinality(posts) < MaxPosts
         /\ posts' = posts (+) One(HeartbeatEvent(data))

\* faulty variant: the POST goes to the server URL the script started with
sendHeartbeatStart_StartupUrl(data) ==
  IF ~CONFIG.enabled \/ ~isConnected
    THEN UNCHANGED posts
    ELSE /\ BagCardinality(posts) < MaxPosts
         /\ posts' = posts (+) One([HeartbeatEvent(data) EXCEPT
                                      !.server = DefaultConfig.serverUrl])

sendHeartbeatStart(data) ==
  IF ~CONFIG.enabled \/ ~isConnected
    THEN UNCHANGED posts
    ELSE /\ BagCardinality(posts) < MaxPosts
         /\ posts' = posts (+) One(HeartbeatEvent(data))

\* heartbeat(): the callback of chrome.tabs.query({}) sets tabCount and sends
heartbeatDispatch(data) ==
  /\ BagIn(data, counting)
  /\ counting' = counting (-) One(data)
  /\ sendHeartbeatStart([data EXCEPT !.tabCount = NumTabs])
  /\ UNCHANGED <<loadItems, initpc, CONFIG, store, isConnected, lastHeartbeat, currentTab,
                 activeTab, serverHealthy, queries, ensures, timers,
                 lastEnsure, hbOkSince>>

\* faulty variant: the catch block does not schedule the retry
sendHeartbeatDone_NoRetry(event, r) ==
  /\ BagIn(event, posts)
  /\ r \in HeartbeatResponses(serverHealthy)
  /\ posts' = posts (-) One(event)
  /\ IF ResponseOk(r)
       THEN /\ lastHeartbeat' = Now
            /\ isConnected' = TRUE
            /\ hbOkSince' = (lastEnsure = "fail")
       ELSE /\ isConnected' = FALSE
            /\ UNCHANGED <<lastHeartbeat, hbOkSince>>
  /\ UNCHANGED <<loadItems, initpc, CONFIG, store, currentTab, activeTab, serverHealthy,
                 queries, counting, ensures, timers, lastEnsure>>

\* faulty variant: the outcome of a POST is dropped while another call is
\* still in flight (only the call that resolves last writes the state)
sendHeartbeatDone_DropsStale(event, r) ==
  /\ BagIn(event, posts)
  /\ r \in HeartbeatResponses(serverHealthy)
  /\ posts' = posts (-) One(event)
  /\ IF posts' # EmptyBag \/ ensures # EmptyBag
       THEN UNCHANGED <<isConnected, lastHeartbeat, hbOkSince, timers>>
       ELSE IF HeartbeatSuccess(r)
         THEN /\ lastHeartbeat' = Now
              /\ isConnected' = TRUE
              /\ hbOkSince' = (lastEnsure = "fail")
              /\ UNCHANGED timers
         ELSE /\ isConnected' = FALSE
              /\ timers < MaxTimers
              /\ timers' = timers + 1
              /\ UNCHANGED <<lastHeartbeat, hbOkSince>>
  /\ UNCHANGED <<loadItems, initpc, CONFIG, store, currentTab, activeTab, serverHealthy,
                 queries, counting, ensures, lastEnsure>>

\* sendHeartbeat: the POST resolves
sendHeartbeatDone(event, r) ==
  /\ BagIn(event, posts)
  /\ r \in HeartbeatResponses(serverHealthy)
  /\ posts' = posts (-) One(event)
  /\ IF HeartbeatSuccess(r)
       THEN /\ lastHeartbeat' = Now
            /\ isConnected' = TRUE
            /\ hbOkSince' = (lastEnsure = "fail")
            /\ UNCHANGED timers
       ELSE /\ isConnected' = FALSE
            /\ timers < MaxTimers
            /\ timers' = timers + 1
            /\ UNCHANGED <<lastHeartbeat, hbOkSince>>
  /\ UNCHANGED <<loadItems, initpc, CONFIG, store, currentTab, activeTab, serverHealthy,
                 queries, counting, ensures, lastEnsure>>

(***************************************************************************)
(* The sampling triggers.  The alarm and the three listeners exist once    *)
(* init has finished; the browser changes its active tab at any time.      *)
(***************************************************************************)
\* faulty variant: the alarm is not handled while a heartbeat POST is in flight
AlarmFires_WaitsForPost ==
  /\ Listening
  /\ posts = EmptyBag
  /\ Cycles < MaxCycles
  /\ StartCycle
  /\ UNCHANGED <<loadItems, initpc, CONFIG, store, isConnected, lastHeartbeat, currentTab,
                 activeTab, serverHealthy, counting, posts, ensures, timers, lastEnsure, hbOkSince>>

\* chrome.alarms.onAlarm, alarm.name === 'heartbeat'
AlarmFires ==
  /\ Listening
  /\ Cycles < MaxCycles
  /\ StartCycle
  /\ UNCHANGED <<loadItems, initpc, CONFIG, store, isConnected, lastHeartbeat, currentTab,
                 activeTab, serverHealthy, counting, posts, ensures, timers, lastEnsure, hbOkSince>>

\* the user switches to tab n; handleTabActivated calls heartbeat()
handleTabActivated(n) ==
  /\ n # activeTab
  /\ activeTab' = n
  /\ IF Listening
       THEN Cycles < MaxCycles /\ StartCycle
       ELSE UNCHANGED queries
  /\ UNCHANGED <<loadItems, initpc, CONFIG, store, isConnected, lastHeartbeat, currentTab,
                 serverHealthy, counting, posts, ensures, timers, lastEnsure, hbOkSince>>

(***************************************************************************)
(* A tab is updated: the active tab now shows n (changeInfo carries url or *)
(* title when that differs), or a background tab changed (active false).   *)
(* handleTabUpdated calls heartbeat() when (changeInfo.url ||              *)
(* changeInfo.title) and tab.active.                                       *)
(***************************************************************************)
\* faulty variant: tab.active is not tested
handleTabUpdated_AnyTab(n, active, changeUrl, changeTitle) ==
  /\ IF active
       THEN /\ activeTab # NoTab
            /\ activeTab' = n
            /\ changeUrl = (Tab(n).url # Tab(activeTab).url)
            /\ changeTitle = (Tab(n).title # Tab(activeTab).title)
       ELSE UNCHANGED activeTab
  /\ IF Listening /\ (changeUrl \/ changeTitle)
       THEN Cycles < MaxCycles /\ StartCycle
       ELSE UNCHANGED queries
  /\ UNCHANGED <<loadItems, initpc, CONFIG, store, isConnected, lastHeartbeat, currentTab,
                 serverHealthy, counting, posts, ensures, timers, lastEnsure, hbOkSince>>

handleTabUpdated(n, active, changeUrl, changeTitle) ==
  /\ IF active
       THEN /\ activeTab # NoTab
            /\ activeTab' = n
            /\ changeUrl = (Tab(n).url # Tab(activeTab).url)
            /\ changeTitle = (Tab(n).title # Tab(activeTab).title)
       ELSE UNCHANGED activeTab
  /\ IF Listening /\ (changeUrl \/ changeTitle) /\ active
       THEN Cycles < MaxCycles /\ StartCycle
       ELSE UNCHANGED queries
  /\ UNCHANGED <<loadItems, initpc, CONFIG, store, isConnected, lastHeartbeat, currentTab,
                 serverHealthy, counting, posts, ensures, timers, lastEnsure, hbOkSince>>

\* a window gets the focus (its active tab is n), or none has it (WINDOW_ID_NONE)
handleWindowFocusChanged(n) ==
  /\ activeTab' = n
  /\ IF Listening /\ n # NoTab
       THEN Cycles < MaxCycles /\ StartCycle
       ELSE UNCHANGED queries
  /\ UNCHANGED <<loadItems, initpc, CONFIG, store, isConnected, lastHeartbeat, currentTab,
                 serverHealthy, counting, posts, ensures, timers, lastEnsure, hbOkSince>>

(***************************************************************************)
(* chrome.runtime.onMessage: the listener is registered when the script    *)
(* loads, so messages are handled while init is still running.             *)
(***************************************************************************)
\* faulty variant: heartbeat() is called only when enabled changes to true
SetEnabled_OnTransitionOnly(enabled) ==
  /\ CONFIG' = [CONFIG EXCEPT !.enabled = enabled]
  /\ store' = Assign(store, [enabled |-> enabled])
  /\ IF enabled /\ ~CONFIG.enabled
       THEN Cycles < MaxCycles /\ StartCycle
       ELSE UNCHANGED queries
  /\ UNCHANGED <<loadItems, initpc, isConnected, lastHeartbeat, currentTab, activeTab,
                 serverHealthy, counting, posts, ensures, timers, lastEnsure, hbOkSince>>

\* faulty variant: heartbeat() is not called
SetEnabled_NoCycle(enabled) ==
  /\ CONFIG' = [CONFIG EXCEPT !.enabled = enabled]
  /\ store' = Assign(store, [enabled |-> enabled])
  /\ UNCHANGED queries
  /\ UNCHANGED <<loadItems, initpc, isConnected, lastHeartbeat, currentTab, activeTab,
                 serverHealthy, counting, posts, ensures, timers, lastEnsure, hbOkSince>>

\* case 'setEnabled'
SetEnabled(enabled) ==
  /\ CONFIG' = [CONFIG EXCEPT !.enabled = enabled]
  /\ store' = Assign(store, [enabled |-> enabled])
  /\ IF enabled
       THEN Cycles < MaxCycles /\ StartCycle
       ELSE UNCHANGED queries
  /\ UNCHANGED <<loadItems, initpc, isConnected, lastHeartbeat, currentTab, activeTab,
                 serverHealthy, counting, posts, ensures, timers, lastEnsure, hbOkSince>>

\* faulty variant: a changed serverUrl makes the handler call createBucket()
SaveSettings_Reconnects(settings) ==
  /\ CONFIG' = Assign(CONFIG, settings)
  /\ store' = Assign(store, settings)
  /\ IF "serverUrl" \in DOMAIN settings /\ settings.serverUrl # CONFIG.serverUrl
       THEN /\ BagCardinality(ensures) < MaxEnsures
            /\ createBucketStart("test", CONFIG.bucketId)
       ELSE UNCHANGED <<ensures, isConnected, lastEnsure, hbOkSince>>
  /\ UNCHANGED <<loadItems, initpc, lastHeartbeat, currentTab, activeTab,
                 serverHealthy, queries, counting, posts, timers>>

\* case 'saveSettings'
SaveSettings(settings) ==
  /\ CONFIG' = Assign(CONFIG, settings)
  /\ store' = Assign(store, settings)
  /\ UNCHANGED <<loadItems, initpc, isConnected, lastHeartbeat, currentTab, activeTab,
                 serverHealthy, queries, counting, posts, ensures, timers, lastEnsure, hbOkSince>>

\* case 'testConnection': createBucket().then(reply)
TestConnection ==
  /\ BagCardinality(ensures) < MaxEnsures
  /\ createBucketStart("test", CONFIG.bucketId)
  /\ UNCHANGED <<loadItems, initpc, CONFIG, store, lastHeartbeat, currentTab, activeTab,
                 serverHealthy, queries, counting, posts, timers>>

\* faulty variant: sendResponse is called at once, not in the then-callback
TestConnectionReply_Immediate == [connected |-> isConnected]

\* testConnection: sendResponse({ connected: isConnected }) in the then-callback
\* of createBucket(), a microtask of the step in which createBucket() returns
TestConnectionReply == [connected |-> isConnected']

\* the server starts or stops answering every request successfully
ServerChanges ==
  /\ serverHealthy' = ~serverHealthy
  /\ UNCHANGED <<loadItems, initpc, CONFIG, store, isConnected, lastHeartbeat, currentTab,
                 activeTab, queries, counting, posts, ensures, timers, lastEnsure, hbOkSince>>

(***************************************************************************)
(* The listener as a whole: the switch on message.type, and what it passes *)
(* to sendResponse in the same task (testConnection answers later, when    *)
(* createBucket() has resolved).                                           *)
(***************************************************************************)
onMessage(message) ==
  CASE message.type = "getStatus" -> UNCHANGED vars
    [] message.type = "setEnabled" -> SetEnabled(message.enabled)
    [] message.type = "getSettings" -> UNCHANGED vars
    [] message.type = "saveSettings" -> SaveSettings(message.settings)
    [] message.type = "testConnection" -> TestConnection
    [] OTHER -> UNCHANGED vars

\* faulty variant: the switch has no default branch, nothing is sent back
Response_SilentDefault(message) ==
  CASE message.type = "getStatus" -> StatusReply
    [] message.type = "setEnabled" -> [success |-> TRUE]
    [] message.type = "getSettings" -> CONFIG
    [] message.type = "saveSettings" -> [success |-> TRUE]
    [] message.type = "testConnection" -> [async |-> TRUE]
    [] OTHER -> [none |-> TRUE]

Response(message) ==
  CASE message.type = "getStatus" -> StatusReply
    [] message.type = "setEnabled" -> [success |-> TRUE]
    [] message.type = "getSettings" -> CONFIG
    [] message.type = "saveSettings" -> [success |-> TRUE]
    [] message.type = "testConnection" -> [async |-> TRUE]
    [] OTHER -> [error |-> "Unknown message type"]

\* the messages a popup or options page can send, and two of unknown type
MessageInputs ==
  {[type |-> "getStatus"], [type |-> "getSettings"], [type |-> "testConnection"],
   [type |-> "ping"], [type |-> "setenabled", enabled |-> FALSE]}
  \cup {[type |-> "setEnabled", enabled |-> b] : b \in BOOLEAN}
  \cup {[type |-> "saveSettings", settings |-> s] : s \in SettingsInputs}

Callers == {"init", "test", "retry"}

InitSteps ==
  \/ StorageGetServed
  \/ LoadSettingsDone
  \/ \E h \in {sServerHost, sUnknown} : GetHostnameDone(h)

NetworkSteps ==
  \/ \E c \in Callers : \E r \in AllResponses : createBucketDone(c, r)
  \/ RetryTimerFires
  \/ \E e \in BagToSet(posts) : \E r \in AllResponses : sendHeartbeatDone(e, r)

CycleSteps ==
  \/ heartbeatFilter
  \/ \E d \in BagToSet(counting) : heartbeatDispatch(d)

Triggers(tabs) ==
  \/ AlarmFires
  \/ \E n \in tabs : handleTabActivated(n)
  \/ \E n \in tabs : \E u, ti \in BOOLEAN : handleTabUpdated(n, TRUE, u, ti)
  \/ \E u, ti \in BOOLEAN : handleTabUpdated(activeTab, FALSE, u, ti)
  \/ \E n \in tabs \cup {NoTab} : handleWindowFocusChanged(n)

Messages(settings) ==
  \/ \E b \in BOOLEAN : SetEnabled(b)
  \/ \E s \in settings : SaveSettings(s)

(***************************************************************************)
(* Spec: the connection state machine under every interleaving of the     *)
(* triggers, setEnabled, testConnection, network resolutions and server    *)
(* changes, with the default store and two tabs.                           *)
(* FilterSpec: the filter under every tab, store and settings object of    *)
(* the model: the active tab is fixed during a run, the settings change    *)
(* (saveSettings, setEnabled), the server stays healthy.                   *)
(***************************************************************************)
ConnStores == {[serverUrl |-> "http://localhost:5600"]}
ConnTabs == {"work", "internal"}

Init == InitWith(ConnStores, ConnTabs)
Next ==
  \/ InitSteps
  \/ NetworkSteps
  \/ CycleSteps
  \/ Triggers(ConnTabs)
  \/ \E b \in BOOLEAN : SetEnabled(b)
  \/ TestConnection
  \/ ServerChanges
Spec == Init /\ [][Next]_vars

FilterInit == InitWith(StoreInputs, TabNames) /\ serverHealthy
FilterNext ==
  \/ InitSteps
  \/ \E r \in AllResponses : createBucketDone("init", r)
  \/ \E e \in BagToSet(posts) : \E r \in AllResponses : sendHeartbeatDone(e, r)
  \/ CycleSteps
  \/ AlarmFires
  \/ Messages(SettingsInputs)
FilterSpec == FilterInit /\ [][FilterNext]_vars

(***************************************************************************)
(* CatSpec: the categorizer on the tabs of CatTabs, under every store and  *)
(* settings object of the model; the steps are those of FilterSpec.        *)
(***************************************************************************)
CatTabs == {"sheet", "doc", "pull", "issue", "both", "repo", "unknown"}
CatInit == InitWith(StoreInputs, CatTabs) /\ serverHealthy
CatNext ==
  \/ InitSteps
  \/ \E r \in AllResponses : createBucketDone("init", r)
  \/ \E e \in BagToSet(posts) : \E r \in AllResponses : sendHeartbeatDone(e, r)
  \/ CycleSteps
  \/ AlarmFires
  \/ Messages(SettingsInputs)
CatSpec == CatInit /\ [][CatNext]_vars

(***************************************************************************)
(* MsgSpec: the message listener under every message of MessageInputs,     *)
(* with one tab, the default store, the alarm and the network steps.       *)
(***************************************************************************)
MsgInit == InitWith(ConnStores, {"work"})
MsgNext ==
  \/ InitSteps
  \/ NetworkSteps
  \/ CycleSteps
  \/ AlarmFires
  \/ \E m \in MessageInputs : onMessage(m)
MsgSpec == MsgInit /\ [][MsgNext]_vars

(***************************************************************************)
(* SettingsSpec: the settings store.  The store at start-up is the default *)
(* one or one written by the options page (clientKeywords included); the   *)
(* messages are getSettings, testConnection and saveSettings with the full *)
(* object the options page sends, a partial one, and one that carries      *)
(* bucketId.  The server stays healthy.                                    *)
(***************************************************************************)
sOtherBucket == <<"a", "w", "-", "w", "a", "t", "c", "h", "e", "r", "-", "w", "e", "b", "-", "e", "n", "h", "a", "n", "c", "e", "d", "_", "o", "t", "h", "e", "r">>
Keywords == {<<"vscode", "code">>}

SettingsStores ==
  { [serverUrl |-> "http://localhost:5600"],
    [serverUrl |-> "http://aw:5600", trackUrls |-> FALSE, trackTitles |-> TRUE,
     incognitoTracking |-> TRUE, excludeDomains |-> <<>>, excludePatterns |-> <<>>,
     clientKeywords |-> Keywords] }

SaveInputs ==
  { [serverUrl |-> "http://other:5600", trackUrls |-> TRUE, trackTitles |-> FALSE,
     incognitoTracking |-> FALSE, excludeDomains |-> <<>>, excludePatterns |-> <<>>,
     clientKeywords |-> Keywords],
    [excludeDomains |-> <<sHub>>],
    [bucketId |-> sOtherBucket] }

SettingsMessages ==
  {[type |-> "getSettings"], [type |-> "testConnection"]}
  \cup {[type |-> "saveSettings", settings |-> s] : s \in SaveInputs}

\* the DEFAULTS object of the options page
DEFAULTS ==
  [serverUrl |-> "http://localhost:5600",
   trackUrls |-> TRUE,
   trackTitles |-> TRUE,
   incognitoTracking |-> FALSE,
   excludeDomains |-> <<sLocalhost, sLoopback>>,
   excludePatterns |-> <<>>,
   clientKeywords |-> {}]

\* the options page's resetSettings(): chrome.storage.sync.set(DEFAULTS), then
\* the page reloads its own form; no message goes to the background script
ResetSettings ==
  /\ store' = Assign(store, DEFAULTS)
  /\ UNCHANGED <<loadItems, initpc, CONFIG, isConnected, lastHeartbeat, currentTab,
                 activeTab, serverHealthy, queries, counting, posts, ensures,
                 timers, lastEnsure, hbOkSince>>

SettingsInit == InitWith(SettingsStores, {"work"}) /\ serverHealthy
SettingsNext ==
  \/ InitSteps
  \/ \E c \in {"init", "test"} : \E r \in AllResponses : createBucketDone(c, r)
  \/ \E e \in BagToSet(posts) : \E r \in AllResponses : sendHeartbeatDone(e, r)
  \/ CycleSteps
  \/ AlarmFires
  \/ \E m \in SettingsMessages : onMessage(m)
  \/ ResetSettings
SettingsSpec == SettingsInit /\ [][SettingsNext]_vars

(***************************************************************************)
(* LiveSpec: no testConnection message arrives; every pending callback,    *)
(* network resolution and timer eventually runs (the event loop runs each  *)
(* queued task, every fetch settles), and the periodic alarm keeps firing. *)
(***************************************************************************)
(***************************************************************************)
(* BucketSpec: start-up and the createBucket() calls with every hostname   *)
(* the info request can give, one tab, the default store.                  *)
(***************************************************************************)
BucketInit == InitWith(ConnStores, {"work"})
BucketNext ==
  \/ StorageGetServed
  \/ LoadSettingsDone
  \/ \E h \in ServerHosts \cup {sUnknown} : GetHostnameDone(h)
  \/ NetworkSteps
  \/ CycleSteps
  \/ AlarmFires
  \/ TestConnection
BucketSpec == BucketInit /\ [][BucketNext]_vars

LiveNext ==
  \/ InitSteps
  \/ NetworkSteps
  \/ CycleSteps
  \/ Triggers(ConnTabs)
  \/ \E b \in BOOLEAN : SetEnabled(b)
  \/ ServerChanges

Fairness ==
  /\ WF_vars(InitSteps)
  /\ WF_vars(NetworkSteps)
  /\ WF_vars(CycleSteps)
  /\ WF_vars(AlarmFires)

LiveSpec == Init /\ [][LiveNext]_vars /\ Fairness

(***************************************************************************)
(* Steps as they show in the state.                                        *)
(***************************************************************************)
\* a heartbeat POST is issued
PostIssued == BagCardinality(posts') > BagCardinality(posts)

\* a cycle reaches sendHeartbeat (the tab-count callback runs)
CycleDispatched == BagCardinality(counting') < BagCardinality(counting)

\* the active-tab callback of a cycle runs (the privacy filter)
FilterRuns == queries' = queries - 1

\* a createBucket() fetch is issued / settles
EnsureStarted == BagCardinality(ensures') > BagCardinality(ensures)
EnsureSettled == BagCardinality(ensures') < BagCardinality(ensures)

\* a heartbeat POST settles
PostSettled == BagCardinality(posts') < BagCardinality(posts)

(***************************************************************************)
(* C1 as stated: once a createBucket() attempt has resolved with failure,  *)
(* no heartbeat POST is issued until a later createBucket() attempt        *)
(* resolves with success (lastEnsure is the outcome of the latest resolved *)
(* attempt); a heartbeat already in flight must not re-enable sending.     *)
(***************************************************************************)
C1_NoPostUntilEnsureSucceeds == [][lastEnsure = "fail" => ~PostIssued]_vars

(***************************************************************************)
(* C1 amended: after a createBucket() failure the state is Disconnected    *)
(* and no heartbeat POST is issued until a later createBucket() succeeds   *)
(* or a heartbeat POST that was in flight resolves successfully.           *)
(***************************************************************************)
C1_NoPostUntilEnsureOrHeartbeatSucceeds ==
  /\ [](lastEnsure = "fail" /\ ~hbOkSince => ~isConnected)
  /\ [][lastEnsure = "fail" /\ ~hbOkSince => ~PostIssued]_vars

\* a POST is in flight and a cycle waits to be sent when createBucket() has failed
C1_Witness ==
  /\ lastEnsure = "fail"
  /\ ~hbOkSince
  /\ posts # EmptyBag
  /\ counting # EmptyBag
  /\ CONFIG.enabled

(***************************************************************************)
(* C2 as stated: every transition into Disconnected schedules a retry      *)
(* timer: each step in which a createBucket() fetch or a heartbeat POST    *)
(* settles and leaves isConnected false adds a pending timer.              *)
(***************************************************************************)
C2_EveryDisconnectSchedulesRetry ==
  [][(EnsureSettled \/ PostSettled) /\ ~isConnected' => timers' = timers + 1]_vars

(***************************************************************************)
(* C3.  StuckDisconnected: init has finished, the state is Disconnected    *)
(* and nothing that could change it is pending (no createBucket() fetch,   *)
(* no retry timer, no heartbeat POST).  With no testConnection message     *)
(* such a state is never left (C3_StuckStaysStuck), whatever the server    *)
(* answers from then on, so the liveness C3 claims holds only if no such   *)
(* state is reachable.                                                     *)
(***************************************************************************)
StuckDisconnected ==
  /\ initpc = "done"
  /\ ~isConnected
  /\ ensures = EmptyBag
  /\ timers = 0
  /\ posts = EmptyBag

C3_StuckStaysStuck == [][StuckDisconnected => StuckDisconnected']_vars

(***************************************************************************)
(* C3 as stated, in the form a finite run refutes: from every reachable    *)
(* state recovery is still possible, i.e. a Disconnected state always has  *)
(* a createBucket() attempt pending or a call in flight that can lead to   *)
(* one.                                                                    *)
(***************************************************************************)
C3_RecoveryAlwaysPending == ~StuckDisconnected

(***************************************************************************)
(* C4: no backlog.  A heartbeat POST is issued only in the step in which a *)
(* cycle reaches sendHeartbeat while Connected, it is one POST and it      *)
(* carries that cycle's data; a cycle that reaches sendHeartbeat while not *)
(* Connected leaves the pipeline without a POST.  Hence a dropped event is *)
(* held nowhere to be sent later, and POSTs issued never outnumber the     *)
(* cycles that reached the dispatcher while Connected.                     *)
(***************************************************************************)
SentData(d) == [d EXCEPT !.tabCount = NumTabs]

C4_NoBacklog ==
  /\ [][PostIssued =>
          /\ isConnected
          /\ \E d \in BagToSet(counting) :
               /\ counting' = counting (-) One(d)
               /\ posts' = posts (+) One(HeartbeatEvent(SentData(d)))]_vars
  /\ [][CycleDispatched /\ ~isConnected => posts' = posts]_vars

\* a cycle is about to reach sendHeartbeat while the state is Disconnected,
\* after an earlier heartbeat was sent and failed
C4_Witness ==
  /\ ~isConnected
  /\ CONFIG.enabled
  /\ counting # EmptyBag
  /\ timers > 0

(***************************************************************************)
(* C5: while Connected and enabled every cycle that reaches sendHeartbeat  *)
(* (its snapshot passed the filter) issues exactly one POST with that      *)
(* cycle's data, also when an equal event is already in flight (no         *)
(* deduplication); every POST in flight carries duration 0.                *)
(***************************************************************************)
C5_OnePostPerAcceptedCycle ==
  /\ [][CycleDispatched /\ isConnected /\ CONFIG.enabled =>
          \E d \in BagToSet(counting) :
            /\ counting' = counting (-) One(d)
            /\ posts' = posts (+) One(HeartbeatEvent(SentData(d)))]_vars
  /\ [](\A e \in BagToSet(posts) : e.duration = 0)

\* two equal heartbeats are in flight at once
C5_Witness == \E e \in BagToSet(posts) : CopiesIn(e, posts) = 2

(***************************************************************************)
(* C6: when a heartbeat POST resolves with a network error or a non-2xx    *)
(* response, the state becomes Disconnected and one retry of createBucket  *)
(* is scheduled; nothing else stops: init's listeners stay registered      *)
(* (once init is done it stays done) and cycles in progress are kept.      *)
(***************************************************************************)
C6_SendFailureDisconnectsAndRetries ==
  /\ [][\A e \in BagToSet(posts) : \A r \in AllResponses :
          ~(r.kind = "http" /\ r.status \in 200..299) /\ sendHeartbeatDone(e, r) =>
            /\ ~isConnected'
            /\ timers' = timers + 1
            /\ initpc' = initpc
            /\ queries' = queries /\ counting' = counting]_vars
  /\ [][initpc = "done" => initpc' = "done"]_vars

\* after a failed send a trigger has started a new cycle
C6_Witness == ~isConnected /\ timers > 0 /\ queries > 0 /\ initpc = "done"

(***************************************************************************)
(* C7 as stated: while a createBucket() attempt is in flight the state is  *)
(* not Connected, and getStatus reports connected = false.                 *)
(***************************************************************************)
C7_NotConnectedWhileChecking ==
  ensures # EmptyBag => StatusReply.connected = FALSE

(***************************************************************************)
(* C7 amended: the connection state has two values (isConnected is a       *)
(* boolean, there is no Checking state); issuing a createBucket() fetch    *)
(* does not change it, so during the attempt getStatus reports the value   *)
(* the last resolved call left.                                            *)
(***************************************************************************)
C7_AttemptLeavesStateUntilResolved ==
  /\ [](isConnected \in BOOLEAN /\ StatusReply.connected = isConnected)
  /\ [][EnsureStarted => isConnected' = isConnected]_vars

\* an attempt started by testConnection is in flight while Connected
C7_Witness == BagIn("test", ensures) /\ isConnected

(***************************************************************************)
(* C8: a createBucket() attempt leaves the state Connected exactly when    *)
(* the answer is a 2xx status or 304, Disconnected otherwise; a heartbeat  *)
(* POST leaves it Connected exactly when the answer is a 2xx status.       *)
(***************************************************************************)
Is2xx(r) == r.kind = "http" /\ r.status \in 200..299

C8_SuccessStatuses ==
  /\ [][\A c \in Callers : \A r \in AllResponses :
          createBucketDone(c, r) =>
            (isConnected' <=> (Is2xx(r) \/ (r.kind = "http" /\ r.status = 304)))]_vars
  /\ [][\A e \in BagToSet(posts) : \A r \in AllResponses :
          sendHeartbeatDone(e, r) => (isConnected' <=> Is2xx(r))]_vars

\* a heartbeat POST has failed after a successful createBucket()
C8_Witness == lastEnsure = "ok" /\ ~isConnected /\ timers > 0

(***************************************************************************)
(* C9: in every cycle in which, when the filter runs, the hostname of the  *)
(* active tab's URL contains an excludeDomains entry as a substring, no    *)
(* event is built and no POST is issued.  (d is a substring of s when      *)
(* s = a \o d \o b for some a and b.)                                      *)
(***************************************************************************)
IsSubstring(d, s) ==
  \E i \in 0..Len(s) : \E j \in i..Len(s) : SubSeq(s, i + 1, j) = d

HostnameExcludedNow ==
  /\ activeTab # NoTab
  /\ ParseURL(Tab(activeTab).url).valid
  /\ \E i \in DOMAIN CONFIG.excludeDomains :
       IsSubstring(CONFIG.excludeDomains[i], ParseURL(Tab(activeTab).url).hostname)

C9_ExcludedDomainNeverDispatched ==
  [][FilterRuns /\ HostnameExcludedNow =>
       counting' = counting /\ posts' = posts /\ currentTab' = currentTab]_vars

\* a cycle is about to filter a tab whose hostname contains an entry inside a
\* label (mylocalhost.io, entry localhost) and that nothing else would block
C9_Witness ==
  /\ queries > 0
  /\ activeTab = "sub"
  /\ HostnameExcludedNow
  /\ ~PatternExcluded(Tab(activeTab).url, CONFIG)
  /\ isConnected
  /\ CONFIG.enabled

(***************************************************************************)
(* C10: in every cycle in which, when the filter runs, the active tab is   *)
(* incognito and CONFIG.incognitoTracking is false, no event is built and  *)
(* no POST is issued, whatever the other settings and the connection state.*)
(***************************************************************************)
C10_IncognitoBlocked ==
  [][FilterRuns /\ activeTab # NoTab /\ Tab(activeTab).incognito
       /\ ~CONFIG.incognitoTracking =>
       counting' = counting /\ posts' = posts /\ currentTab' = currentTab]_vars

\* a cycle is about to filter an incognito tab that no exclusion would block
C10_Witness ==
  /\ queries > 0
  /\ activeTab = "incog"
  /\ ~CONFIG.incognitoTracking
  /\ ~DomainExcluded(ParseURL(Tab(activeTab).url).hostname, CONFIG)
  /\ ~PatternExcluded(Tab(activeTab).url, CONFIG)
  /\ isConnected
  /\ CONFIG.enabled

(***************************************************************************)
(* C11: an excludePatterns entry that does not compile is a non-match for  *)
(* that entry only.  Every run of the filter has the outcome it would have *)
(* with the malformed entries removed from CONFIG.excludePatterns: the     *)
(* same snapshot is accepted with the same data, or rejected; the cycle    *)
(* goes on (the step exists) and the valid entries still decide.           *)
(***************************************************************************)
WithoutMalformed(cfg) ==
  [cfg EXCEPT !.excludePatterns = SelectSeq(@, RegExpCompiles)]

HasMalformed(cfg) ==
  \E i \in DOMAIN cfg.excludePatterns : ~RegExpCompiles(cfg.excludePatterns[i])

C11_MalformedPatternIsNonMatch ==
  [][FilterRuns =>
       LET cfg == WithoutMalformed(CONFIG)
           tab == getCurrentTabData(activeTab, cfg)
           data == IF tab = Null THEN NullData ELSE processTabData(Tab(tab), cfg)
       IN IF data = NullData
            THEN counting' = counting /\ currentTab' = currentTab
            ELSE counting' = counting (+) One(data) /\ currentTab' = tab]_vars

\* a cycle is about to filter a tab that only a malformed entry could block:
\* the list holds an entry that does not compile and a valid one that does
\* not match, and no domain is excluded
C11_Witness ==
  /\ queries > 0
  /\ activeTab = "sub"
  /\ HasMalformed(CONFIG)
  /\ Len(WithoutMalformed(CONFIG).excludePatterns) > 0
  /\ ~DomainExcluded(ParseURL(Tab(activeTab).url).hostname, CONFIG)
  /\ processTabData(Tab(activeTab), WithoutMalformed(CONFIG)) # NullData
  /\ isConnected
  /\ CONFIG.enabled

(***************************************************************************)
(* C12: when the filter runs on an active tab that has no URL, or whose    *)
(* URL starts with chrome://, chrome-extension://, about: or               *)
(* moz-extension://, no event is built and no POST is issued, under every  *)
(* CONFIG (incognitoTracking on or off, exclusion lists empty or not).     *)
(***************************************************************************)
NoUrlOrInternalScheme(url) ==
  \/ url = <<>>
  \/ \E p \in {sChrome, sChromeExt, sAbout, sMozExt} :
       Len(url) >= Len(p) /\ \A i \in 1..Len(p) : url[i] = p[i]

C12_InternalPagesRejected ==
  [][FilterRuns /\ activeTab # NoTab /\ NoUrlOrInternalScheme(Tab(activeTab).url) =>
       counting' = counting /\ posts' = posts /\ currentTab' = currentTab]_vars

\* a cycle is about to filter an about: page in an incognito window while
\* incognito tracking is on and both exclusion lists are empty
C12_Witness ==
  /\ queries > 0
  /\ activeTab = "about"
  /\ CONFIG.incognitoTracking
  /\ CONFIG.excludeDomains = <<>>
  /\ CONFIG.excludePatterns = <<>>
  /\ isConnected
  /\ CONFIG.enabled

(***************************************************************************)
(* C13: the filter accepts the active tab exactly when the four checks of  *)
(* the specification pass: it has a URL of a non-internal scheme, it is    *)
(* not incognito while incognitoTracking is off, its hostname contains no  *)
(* excludeDomains entry, and its URL matches no excludePatterns entry that *)
(* compiles.  An accepted tab yields one data object, carrying the label   *)
(* of categorizeDomain; a rejected one (or no active tab) yields none, so  *)
(* no label exists for it; the filter step itself makes no network call.   *)
(***************************************************************************)
Accepted(n, cfg) ==
  /\ n # NoTab
  /\ ~NoUrlOrInternalScheme(Tab(n).url)
  /\ ~(Tab(n).incognito /\ ~cfg.incognitoTracking)
  /\ ~\E i \in DOMAIN cfg.excludeDomains :
        IsSubstring(cfg.excludeDomains[i], ParseURL(Tab(n).url).hostname)
  /\ ~\E i \in DOMAIN cfg.excludePatterns :
        /\ RegExpCompiles(cfg.excludePatterns[i])
        /\ RegExpTest(cfg.excludePatterns[i], Tab(n).url)

C13_FilterIsTheFourChecks ==
  [][FilterRuns =>
       /\ posts' = posts /\ ensures' = ensures
       /\ IF Accepted(activeTab, CONFIG)
            THEN /\ currentTab' = activeTab
                 /\ \E d \in BagToSet(counting') :
                      /\ counting' = counting (+) One(d)
                      /\ d.domain = ParseURL(Tab(activeTab).url).hostname
                      /\ d.category = categorizeDomain(d.domain, d.path)
            ELSE counting' = counting /\ currentTab' = currentTab]_vars

\* a cycle has accepted the tab and another is about to filter it again
C13_Witness ==
  /\ queries > 0
  /\ counting # EmptyBag
  /\ currentTab = "work"
  /\ activeTab = "work"
  /\ Accepted("work", CONFIG)

(***************************************************************************)
(* Inputs of the categorizer claims: hostnames (with upper-case spellings, *)
(* a subdomain and the empty string) and paths.                            *)
(***************************************************************************)
hGithub == <<"g", "i", "t", "h", "u", "b", ".", "c", "o", "m">>
hGithubUpper == <<"G", "i", "t", "H", "u", "b", ".", "C", "O", "M">>
hGist == <<"g", "i", "s", "t", ".", "g", "i", "t", "h", "u", "b", ".", "c", "o", "m">>
hDocsGoogle == <<"d", "o", "c", "s", ".", "g", "o", "o", "g", "l", "e", ".", "c", "o", "m">>
hDocsGoogleUpper == <<"D", "o", "c", "s", ".", "G", "o", "o", "g", "l", "e", ".", "C", "o", "m">>
hUnknown == <<"u", "n", "k", "n", "o", "w", "n", "-", "d", "o", "m", "a", "i", "n", ".", "e", "x", "a", "m", "p", "l", "e">>
pRoot == <<"/">>
pPull == <<"/", "u", "s", "e", "r", "/", "r", "e", "p", "o", "/", "p", "u", "l", "l", "/", "1", "2", "3">>
pIssue == <<"/", "u", "s", "e", "r", "/", "r", "e", "p", "o", "/", "i", "s", "s", "u", "e", "s", "/", "1">>
pBoth == <<"/", "i", "s", "s", "u", "e", "s", "/", "1", "/", "p", "u", "l", "l", "/", "2">>
pSheet == <<"/", "s", "p", "r", "e", "a", "d", "s", "h", "e", "e", "t", "s", "/", "d", "/", "1">>
pDoc == <<"/", "d", "o", "c", "u", "m", "e", "n", "t", "/", "d", "/", "1">>
pRepo == <<"/", "u", "s", "e", "r", "/", "r", "e", "p", "o">>

CatHosts == {hGithub, hGithubUpper, hGist, hDocsGoogle, hDocsGoogleUpper, hUnknown, <<>>}
CatPaths == {pRoot, pPull, pIssue, pBoth, pSheet, pDoc, pRepo, <<>>}

(***************************************************************************)
(* C14 as stated: for hostname docs.google.com a path containing           *)
(* /spreadsheets/ yields "Work/Data/Spreadsheets" and a path containing    *)
(* /document/ yields "Work/Documentation/Writing": every data object a     *)
(* cycle has built for such a tab carries that label.                      *)
(***************************************************************************)
C14_DocsGooglePathRules ==
  \A d \in BagToSet(counting) :
    d.domain = hDocsGoogle =>
         /\ IsSubstring(<<"/", "s", "p", "r", "e", "a", "d", "s", "h", "e", "e", "t", "s", "/">>, d.path) => d.category = "Work/Data/Spreadsheets"
         /\ IsSubstring(<<"/", "d", "o", "c", "u", "m", "e", "n", "t", "/">>, d.path) => d.category = "Work/Documentation/Writing"

(***************************************************************************)
(* C15: for every hostname containing github.com the label is              *)
(* "Work/Development/Code Review" when the path contains /pull/, else      *)
(* "Work/Development/Issues" when it contains /issues/, else               *)
(* "Work/Development"; with both in the path /pull/ wins.  Stated for the  *)
(* function on CatHosts x CatPaths and for every data object built.        *)
(***************************************************************************)
GithubLabel(path) ==
  IF IsSubstring(<<"/", "p", "u", "l", "l", "/">>, path) THEN "Work/Development/Code Review"
  ELSE IF IsSubstring(<<"/", "i", "s", "s", "u", "e", "s", "/">>, path) THEN "Work/Development/Issues"
  ELSE "Work/Development"

C15_GithubPathRules ==
  /\ \A h \in {hGithub, hGist} : \A p \in CatPaths :
       categorizeDomain(h, p) = GithubLabel(p)
  /\ \A d \in BagToSet(counting) :
       IsSubstring(hGithub, d.domain) => d.category = GithubLabel(d.path)

\* a cycle has built the data of a tab whose path holds /issues/ and /pull/
C15_Witness ==
  \E d \in BagToSet(counting) :
    /\ d.domain = hGist
    /\ d.path = pBoth
    /\ d.category = "Work/Development/Code Review"

(***************************************************************************)
(* C16: a hostname no domain test matches yields null for every path, and  *)
(* null is a normal outcome: the data object is built with category null   *)
(* and, while Connected and enabled, is posted like any other.  (The first *)
(* conjunct mentions no variable: it holds in the initial states exactly   *)
(* when it holds everywhere.)                                              *)
(***************************************************************************)
C16_NoMatchYieldsNone ==
  /\ \A p \in CatPaths : categorizeDomain(hUnknown, p) = Null
  /\ [][FilterRuns /\ activeTab = "unknown" /\ Accepted(activeTab, CONFIG) =>
          \E d \in BagToSet(counting') :
            /\ counting' = counting (+) One(d)
            /\ d.domain = hUnknown
            /\ d.category = Null]_vars
  /\ [][\A d \in BagToSet(counting) :
          d.category = Null /\ heartbeatDispatch(d) /\ isConnected /\ CONFIG.enabled =>
            posts' = posts (+) One(HeartbeatEvent(SentData(d)))]_vars

\* the heartbeat of an uncategorized tab is in flight
C16_Witness ==
  \E e \in BagToSet(posts) :
    e.data.domain = hUnknown /\ e.data.category = Null

(***************************************************************************)
(* C17: categorizeDomain is a total function of (hostname, path): on       *)
(* CatHosts x CatPaths (the empty strings included) it yields a label of   *)
(* the table or null; upper- and lower-case spellings of a hostname get    *)
(* the same label; and whatever CONFIG and the connection state are, the   *)
(* label a cycle or a heartbeat carries is the function's value for its    *)
(* domain and path.  (The first two conjuncts mention no variable: they    *)
(* hold in the initial states exactly when they hold everywhere.)          *)
(***************************************************************************)
Labels ==
  {"Personal/Entertainment", "Personal/News", "Personal/Shopping",
   "Personal/Social Media", "Research/Learning", "Work/Communication/Chat",
   "Work/Communication/Email", "Work/Communication/Meetings",
   "Work/Data/Spreadsheets", "Work/Design", "Work/Development",
   "Work/Development/Code Review", "Work/Development/Documentation",
   "Work/Development/Issues", "Work/Development/Research",
   "Work/Documentation", "Work/Documentation/Writing", "Work/Files",
   "Work/Presentation", "Work/Project Management"}

C17_CategorizeIsPureAndCaseInsensitive ==
  /\ \A h \in CatHosts : \A p \in CatPaths :
       /\ categorizeDomain(h, p) \in Labels \cup {Null}
       /\ categorizeDomain(h, p) = categorizeDomain(ToLowerCase(h), p)
  /\ \A p \in CatPaths :
       /\ categorizeDomain(hGithubUpper, p) = categorizeDomain(hGithub, p)
       /\ categorizeDomain(hDocsGoogleUpper, p) = categorizeDomain(hDocsGoogle, p)
  /\ [](/\ \A d \in BagToSet(counting) :
            d.category = categorizeDomain(d.domain, d.path)
        /\ \A e \in BagToSet(posts) :
            e.data.category = categorizeDomain(e.data.domain, e.data.path))

\* a cycle has labelled a tab while Disconnected, under settings that differ
\* from the defaults
C17_Witness ==
  /\ ~isConnected
  /\ CONFIG.excludeDomains # DefaultConfig.excludeDomains
  /\ CONFIG.incognitoTracking
  /\ \E d \in BagToSet(counting) : d.category \in Labels

(***************************************************************************)
(* C18 as stated: a setEnabled message starts a sampling cycle only when   *)
(* CONFIG.enabled changes from false to true; setEnabled(true) received    *)
(* while CONFIG.enabled is true starts none, setEnabled(false) never does. *)
(***************************************************************************)
C18_CycleOnlyOnTransition ==
  [][\A b \in BOOLEAN :
       SetEnabled(b) /\ ~(b /\ ~CONFIG.enabled) => queries' = queries]_vars

(***************************************************************************)
(* C18 amended: every setEnabled(true) message starts one sampling cycle,  *)
(* whether CONFIG.enabled was true or false before; setEnabled(false)      *)
(* never starts one.                                                       *)
(***************************************************************************)
C18_CycleOnEverySetEnabledTrue ==
  [][\A b \in BOOLEAN :
       SetEnabled(b) =>
         /\ CONFIG'.enabled = b
         /\ queries' = IF b THEN queries + 1 ELSE queries]_vars

\* two setEnabled(true) messages have arrived while init was loading the
\* settings (CONFIG.enabled was true all along): two cycles are pending
C18_Witness ==
  /\ initpc = "load"
  /\ CONFIG.enabled
  /\ "enabled" \in DOMAIN store
  /\ queries = 2

(***************************************************************************)
(* C19: setEnabled(false) starts no cycle and leaves CONFIG.enabled false; *)
(* setEnabled(true) received in that state starts exactly one cycle and    *)
(* leaves CONFIG.enabled true.  Hence setEnabled(false) immediately        *)
(* followed by setEnabled(true) starts exactly one cycle, by the second    *)
(* message.                                                                *)
(***************************************************************************)
C19_DisableThenEnableStartsOneCycle ==
  /\ [][SetEnabled(FALSE) =>
          /\ queries' = queries /\ counting' = counting
          /\ ~CONFIG'.enabled
          /\ store'.enabled = FALSE]_vars
  /\ [][SetEnabled(TRUE) /\ ~CONFIG.enabled =>
          /\ queries' = queries + 1 /\ counting' = counting
          /\ CONFIG'.enabled
          /\ store'.enabled = TRUE]_vars

\* setEnabled(false) has been handled with no cycle in progress, and a
\* setEnabled(true) message can be handled next
C19_Witness ==
  /\ ~CONFIG.enabled
  /\ "enabled" \in DOMAIN store
  /\ Cycles = 0
  /\ initpc = "done"
  /\ isConnected

(***************************************************************************)
(* C20: a message whose type is none of getStatus, setEnabled,             *)
(* getSettings, saveSettings, testConnection is answered with an explicit  *)
(* error and changes nothing: no variable of the script changes (CONFIG,   *)
(* isConnected, lastHeartbeat, currentTab), nothing is added to the calls  *)
(* in flight, and every cycle, fetch and timer that was pending still is,  *)
(* so later messages and triggers are handled as before.                   *)
(***************************************************************************)
KnownTypes == {"getStatus", "setEnabled", "getSettings", "saveSettings", "testConnection"}

UnknownMessages == {m \in MessageInputs : m.type \notin KnownTypes}

C20_UnknownMessageGetsErrorOnly ==
  /\ [](\A m \in UnknownMessages : Response(m) = [error |-> "Unknown message type"])
  /\ [][\A m \in UnknownMessages : onMessage(m) => UNCHANGED vars]_vars

\* an unknown message can arrive while a cycle, a heartbeat POST and a
\* createBucket() fetch are in progress
C20_Witness ==
  /\ UnknownMessages # {}
  /\ queries > 0
  /\ posts # EmptyBag
  /\ ensures # EmptyBag
  /\ isConnected

(***************************************************************************)
(* C21: a testConnection message starts exactly one createBucket()         *)
(* attempt (one fetch; with CONFIG.bucketId still null the attempt fails   *)
(* before the fetch, in the same step, and is answered at once with        *)
(* connected = false).  The response is sent in the step in which that     *)
(* attempt resolves, only there, and it reports the attempt's outcome; a   *)
(* pending attempt can always resolve, so none is left unanswered.         *)
(***************************************************************************)
C21_TestConnectionReportsItsAttempt ==
  /\ [][TestConnection =>
          /\ posts' = posts /\ timers' = timers
          /\ IF CONFIG.bucketId = NullId
               THEN ensures' = ensures /\ TestConnectionReply.connected = FALSE
               ELSE /\ ensures' = ensures (+) One("test")
                    /\ isConnected' = isConnected]_vars
  /\ [][\A r \in AllResponses :
          createBucketDone("test", r) =>
            /\ ensures' = ensures (-) One("test")
            /\ TestConnectionReply.connected = BucketSuccess(r)]_vars
  /\ [][CopiesIn("test", ensures') < CopiesIn("test", ensures) =>
          \E r \in AllResponses : createBucketDone("test", r)]_vars
  /\ [](BagIn("test", ensures) =>
          ENABLED (\E r \in AllResponses : createBucketDone("test", r)))

\* an attempt started by testConnection while Connected is pending and the
\* server no longer answers every request successfully: its outcome can
\* differ from the state the message found
C21_Witness ==
  /\ BagIn("test", ensures)
  /\ isConnected
  /\ ~serverHealthy
  /\ initpc = "done"

(***************************************************************************)
(* C22: a saveSettings message merges exactly the given fields into CONFIG *)
(* (the other fields keep their values), persists them, and changes        *)
(* nothing else: no createBucket() call, no sampling cycle, no heartbeat,  *)
(* no change of isConnected, lastHeartbeat or currentTab, also when        *)
(* serverUrl is among the fields.                                          *)
(***************************************************************************)
Merged(old, new, given) ==
  /\ DOMAIN new = DOMAIN old \cup DOMAIN given
  /\ \A k \in DOMAIN new : new[k] = IF k \in DOMAIN given THEN given[k] ELSE old[k]

C22_SaveSettingsOnlyMerges ==
  [][\A s \in SaveInputs :
       onMessage([type |-> "saveSettings", settings |-> s]) =>
         /\ Merged(CONFIG, CONFIG', s)
         /\ Merged(store, store', s)
         /\ UNCHANGED <<loadItems, initpc, isConnected, lastHeartbeat, currentTab, queries,
                        counting, posts, ensures, timers>>]_vars

\* the server URL has been changed by saveSettings while Connected, with a
\* heartbeat POST in flight
C22_Witness ==
  /\ CONFIG.serverUrl = "http://other:5600"
  /\ isConnected
  /\ posts # EmptyBag
  /\ ensures = EmptyBag

(***************************************************************************)
(* C23: the bucket identity is set once during init and never changes      *)
(* afterwards: once init has completed, no message, trigger, retry or      *)
(* network resolution changes CONFIG.bucketId.                             *)
(* The saveSettings handler assigns every field of the message's settings  *)
(* object to CONFIG, bucketId included, so this is violated.               *)
(***************************************************************************)
C23_BucketIdStableAfterInit ==
  [][initpc = "done" => CONFIG'.bucketId = CONFIG.bucketId]_vars

(***************************************************************************)
(* C24: after loadSettings every documented settings key is in CONFIG,     *)
(* with the stored value when the store has the key and the documented     *)
(* default otherwise, so that getSettings (which replies CONFIG) returns   *)
(* all of them, clientKeywords included.                                   *)
(* CONFIG and the key list of loadSettings have no clientKeywords, so this *)
(* is violated.                                                            *)
(***************************************************************************)
DocumentedDefaults ==
  [serverUrl |-> "http://localhost:5600",
   trackUrls |-> TRUE,
   trackTitles |-> TRUE,
   incognitoTracking |-> FALSE,
   excludeDomains |-> <<sLocalhost, sLoopback>>,
   excludePatterns |-> <<>>,
   clientKeywords |-> {}]

\* the persisted keys of cfg have the values of store st, or the defaults
ConfigEqualsStore(cfg, st) ==
  \A k \in LoadKeys : cfg[k] = IF k \in DOMAIN st THEN st[k] ELSE DefaultConfig[k]

LoadedAsDocumented(keys) ==
  LoadSettingsDone /\ ConfigEqualsStore(loadItems, store) =>
    \A k \in keys :
      /\ k \in DOMAIN CONFIG'
      /\ CONFIG'[k] = IF k \in DOMAIN store THEN store[k] ELSE DocumentedDefaults[k]

C24_LoadedConfigIsFullDocumentedConfig ==
  [][LoadedAsDocumented(DOMAIN DocumentedDefaults)]_vars

\* the same statement without clientKeywords
C24_LoadedConfigExceptClientKeywords ==
  [][LoadedAsDocumented(DOMAIN DocumentedDefaults \ {"clientKeywords"})]_vars

(***************************************************************************)
(* C25: in every sampling cycle the steps come in the order filter,        *)
(* categorize, dispatch.  An event is constructed only in the filter step  *)
(* of a cycle and only for a snapshot the filter accepted; every event     *)
(* waiting for dispatch already carries the category of its hostname and   *)
(* path; a heartbeat POST is issued only by the later dispatch step of a   *)
(* cycle whose event was constructed, and posts that categorized event.    *)
(***************************************************************************)
Categorized(d) ==
  /\ d # NullData
  /\ d.category = categorizeDomain(d.domain, d.path)

C25_FilterThenCategorizeThenDispatch ==
  /\ [](\A d \in BagToSet(counting) : Categorized(d))
  /\ [](\A e \in BagToSet(posts) : Categorized(e.data))
  /\ [][BagCardinality(counting') > BagCardinality(counting) =>
          /\ FilterRuns
          /\ Accepted(activeTab, CONFIG)
          /\ posts' = posts]_vars
  /\ [][PostIssued =>
          /\ ~FilterRuns
          /\ \E d \in BagToSet(counting) :
               /\ Categorized(d)
               /\ counting' = counting (-) One(d)
               /\ posts' = posts (+) One(HeartbeatEvent([d EXCEPT !.tabCount = NumTabs]))]_vars

\* a categorized event is in flight, a later cycle has passed the filter
\* and waits for dispatch, and a third has not reached the filter yet
C25_Witness ==
  /\ \E e \in BagToSet(posts) : e.data.category \in Labels
  /\ \E d \in BagToSet(counting) : d.category \in Labels
  /\ queries > 0

(***************************************************************************)
(* C26: dispatch never blocks sampling.  Once the listeners are            *)
(* registered, every trigger (alarm, tab-activated, tab-updated,           *)
(* focus-changed, setEnabled(true)) can start a new sampling cycle in      *)
(* every state, whatever heartbeat POSTs and createBucket() calls are in   *)
(* flight (the only limit is the bound of the model on cycles in           *)
(* progress); states with two POSTs in flight at once are reachable.       *)
(***************************************************************************)
C26_TriggersNeverWaitForNetwork ==
  [](Listening /\ Cycles < MaxCycles =>
       /\ ENABLED AlarmFires
       /\ ENABLED (\E n \in ConnTabs : handleTabActivated(n) /\ StartCycle)
       /\ ENABLED (\E n \in ConnTabs : handleWindowFocusChanged(n) /\ StartCycle)
       /\ ENABLED (SetEnabled(TRUE) /\ StartCycle)
       /\ activeTab # NoTab =>
            ENABLED (\E n \in ConnTabs : \E u, ti \in BOOLEAN :
                       handleTabUpdated(n, TRUE, u, ti) /\ StartCycle))

\* two heartbeat POSTs and a createBucket() call are in flight, and a
\* trigger can start one more cycle
C26_Witness ==
  /\ Listening
  /\ BagCardinality(posts) >= 2
  /\ ensures # EmptyBag
  /\ Cycles < MaxCycles

RuleTable ==
  <<
    [domains |-> {<<"g", "i", "t", "h", "u", "b", ".", "c", "o", "m">>},
     paths |-> <<<<<<"/", "p", "u", "l", "l", "/">>, "Work/Development/Code Review">>, <<<<"/", "i", "s", "s", "u", "e", "s", "/">>, "Work/Development/Issues">>>>,
     category |-> "Work/Development"],
    [domains |-> {<<"g", "i", "t", "l", "a", "b", ".", "c", "o", "m">>,
                  <<"b", "i", "t", "b", "u", "c", "k", "e", "t", ".", "o", "r", "g">>},
     paths |-> <<>>,
     category |-> "Work/Development"],
    [domains |-> {<<"s", "t", "a", "c", "k", "o", "v", "e", "r", "f", "l", "o", "w", ".", "c", "o", "m">>,
                  <<"s", "t", "a", "c", "k", "e", "x", "c", "h", "a", "n", "g", "e", ".", "c", "o", "m">>},
     paths |-> <<>>,
     category |-> "Work/Development/Research"],
    [domains |-> {<<"d", "o", "c", "s", ".">>,
                  <<"d", "o", "c", "u", "m", "e", "n", "t", "a", "t", "i", "o", "n", ".">>,
                  <<"d", "e", "v", "e", "l", "o", "p", "e", "r", ".">>,
                  <<"d", "e", "v", "d", "o", "c", "s", ".", "i", "o">>},
     paths |-> <<>>,
     category |-> "Work/Development/Documentation"],
    [domains |-> {<<"m", "a", "i", "l", ".", "g", "o", "o", "g", "l", "e", ".", "c", "o", "m">>,
                  <<"o", "u", "t", "l", "o", "o", "k", ".">>,
                  <<"m", "a", "i", "l", ".", "y", "a", "h", "o", "o", ".", "c", "o", "m">>},
     paths |-> <<>>,
     category |-> "Work/Communication/Email"],
    [domains |-> {<<"s", "l", "a", "c", "k", ".", "c", "o", "m">>,
                  <<"d", "i", "s", "c", "o", "r", "d", ".", "c", "o", "m">>,
                  <<"t", "e", "a", "m", "s", ".", "m", "i", "c", "r", "o", "s", "o", "f", "t", ".", "c", "o", "m">>},
     paths |-> <<>>,
     category |-> "Work/Communication/Chat"],
    [domains |-> {<<"m", "e", "e", "t", ".", "g", "o", "o", "g", "l", "e", ".", "c", "o", "m">>,
                  <<"z", "o", "o", "m", ".", "u", "s">>,
                  <<"w", "e", "b", "e", "x", ".", "c", "o", "m">>},
     paths |-> <<>>,
     category |-> "Work/Communication/Meetings"],
    [domains |-> {<<"j", "i", "r", "a">>,
                  <<"a", "s", "a", "n", "a", ".", "c", "o", "m">>,
                  <<"t", "r", "e", "l", "l", "o", ".", "c", "o", "m">>,
                  <<"m", "o", "n", "d", "a", "y", ".", "c", "o", "m">>,
                  <<"l", "i", "n", "e", "a", "r", ".", "a", "p", "p">>,
                  <<"n", "o", "t", "i", "o", "n", ".", "s", "o">>},
     paths |-> <<>>,
     category |-> "Work/Project Management"],
    [domains |-> {<<"d", "o", "c", "s", ".", "g", "o", "o", "g", "l", "e", ".", "c", "o", "m">>},
     paths |-> <<<<<<"/", "d", "o", "c", "u", "m", "e", "n", "t", "/">>, "Work/Documentation/Writing">>, <<<<"/", "s", "p", "r", "e", "a", "d", "s", "h", "e", "e", "t", "s", "/">>, "Work/Data/Spreadsheets">>, <<<<"/", "p", "r", "e", "s", "e", "n", "t", "a", "t", "i", "o", "n", "/">>, "Work/Presentation">>>>,
     category |-> "Work/Documentation"],
    [domains |-> {<<"d", "r", "i", "v", "e", ".", "g", "o", "o", "g", "l", "e", ".", "c", "o", "m">>},
     paths |-> <<>>,
     category |-> "Work/Files"],
    [domains |-> {<<"f", "i", "g", "m", "a", ".", "c", "o", "m">>,
                  <<"c", "a", "n", "v", "a", ".", "c", "o", "m">>,
                  <<"s", "k", "e", "t", "c", "h", ".", "c", "o", "m">>},
     paths |-> <<>>,
     category |-> "Work/Design"],
    [domains |-> {<<"t", "w", "i", "t", "t", "e", "r", ".", "c", "o", "m">>,
                  <<"x", ".", "c", "o", "m">>,
                  <<"f", "a", "c", "e", "b", "o", "o", "k", ".", "c", "o", "m">>,
                  <<"i", "n", "s", "t", "a", "g", "r", "a", "m", ".", "c", "o", "m">>,
                  <<"l", "i", "n", "k", "e", "d", "i", "n", ".", "c", "o", "m">>,
                  <<"r", "e", "d", "d", "i", "t", ".", "c", "o", "m">>},
     paths |-> <<>>,
     category |-> "Personal/Social Media"],
    [domains |-> {<<"y", "o", "u", "t", "u", "b", "e", ".", "c", "o", "m">>,
                  <<"n", "e", "t", "f", "l", "i", "x", ".", "c", "o", "m">>,
                  <<"t", "w", "i", "t", "c", "h", ".", "t", "v">>,
                  <<"s", "p", "o", "t", "i", "f", "y", ".", "c", "o", "m">>,
                  <<"h", "u", "l", "u", ".", "c", "o", "m">>,
                  <<"d", "i", "s", "n", "e", "y", "p", "l", "u", "s", ".", "c", "o", "m">>},
     paths |-> <<>>,
     category |-> "Personal/Entertainment"],
    [domains |-> {<<"a", "m", "a", "z", "o", "n", ".">>,
                  <<"e", "b", "a", "y", ".">>,
                  <<"e", "t", "s", "y", ".", "c", "o", "m">>,
                  <<"s", "h", "o", "p", "i", "f", "y", ".", "c", "o", "m">>},
     paths |-> <<>>,
     category |-> "Personal/Shopping"],
    [domains |-> {<<"n", "e", "w", "s", ".">>,
                  <<"c", "n", "n", ".", "c", "o", "m">>,
                  <<"b", "b", "c", ".">>,
                  <<"n", "y", "t", "i", "m", "e", "s", ".", "c", "o", "m">>,
                  <<"t", "h", "e", "g", "u", "a", "r", "d", "i", "a", "n", ".", "c", "o", "m">>},
     paths |-> <<>>,
     category |-> "Personal/News"],
    [domains |-> {<<"u", "d", "e", "m", "y", ".", "c", "o", "m">>,
                  <<"c", "o", "u", "r", "s", "e", "r", "a", ".", "o", "r", "g">>,
                  <<"e", "d", "x", ".", "o", "r", "g">>,
                  <<"l", "i", "n", "k", "e", "d", "i", "n", ".", "c", "o", "m", "/", "l", "e", "a", "r", "n", "i", "n", "g">>,
                  <<"p", "l", "u", "r", "a", "l", "s", "i", "g", "h", "t", ".", "c", "o", "m">>},
     paths |-> <<>>,
     category |-> "Research/Learning"]
  >>

MinOf(S) == CHOOSE i \in S : \A j \in S : i <= j

RuleHits(domain) ==
  {i \in DOMAIN RuleTable : \E s \in RuleTable[i].domains : Includes(domain, s)}

FirstMatch(domain, path) ==
  IF RuleHits(domain) = {} THEN Null
  ELSE LET rule == RuleTable[MinOf(RuleHits(domain))]
           sub == {j \in DOMAIN rule.paths : Includes(path, rule.paths[j][1])}
       IN IF sub = {} THEN rule.category ELSE rule.paths[MinOf(sub)][2]

hDocsGithub == <<"d", "o", "c", "s", ".", "g", "i", "t", "h", "u", "b", ".", "c", "o", "m">>
hNewsLinkedin == <<"n", "e", "w", "s", ".", "l", "i", "n", "k", "e", "d", "i", "n", ".", "c", "o", "m">>
hJiraSlack == <<"j", "i", "r", "a", ".", "s", "l", "a", "c", "k", ".", "c", "o", "m">>
OverlapHosts == {hDocsGithub, hNewsLinkedin, hJiraSlack, hDocsGoogle, hDocsGoogleUpper}

C29_LastResolvedCallWins ==
  /\ [][EnsureSettled =>
          \A c \in Callers : \A r \in AllResponses :
            createBucketDone(c, r) => isConnected' = BucketSuccess(r)]_vars
  /\ [][PostSettled =>
          \A e \in BagToSet(posts) : \A r \in AllResponses :
            sendHeartbeatDone(e, r) => isConnected' = HeartbeatSuccess(r)]_vars
  /\ [][isConnected' # isConnected => EnsureSettled \/ PostSettled]_vars
  /\ [](\A e \in BagToSet(posts) :
          serverHealthy \/ timers < MaxTimers =>
            ENABLED (\E r \in AllResponses : sendHeartbeatDone(e, r)))
  /\ [](\A c \in BagToSet(ensures) :
          c # "init" => ENABLED (\E r \in AllResponses : createBucketDone(c, r)))

\* every call has resolved: a POST failed (its retry timer is pending) and
\* the call that resolved last succeeded
C29_Witness ==
  /\ isConnected
  /\ timers > 0
  /\ posts = EmptyBag
  /\ ensures = EmptyBag

(***************************************************************************)
(* C30: retry timers are single-instance: at any time at most one retry    *)
(* timer is pending, also when several overlapping heartbeat POSTs that    *)
(* were issued while Connected fail one after another.                     *)
(* Every failed POST calls setTimeout(createBucket, 10000) and no timer is *)
(* ever cleared or tested, so this is violated.                            *)
(***************************************************************************)
C30_AtMostOneRetryTimer == timers <= 1

(***************************************************************************)
(* C31: once the start-up load has finished, the persisted fields of the   *)
(* in-memory CONFIG equal the values in the settings store (the stored     *)
(* value, or the default for a key the store lacks), whatever settings     *)
(* operations have run, the options page's reset-to-defaults included.     *)
(* resetSettings writes the store and tells the background script nothing, *)
(* and the load callback can overwrite a value set while it was pending,   *)
(* so this is violated.                                                    *)
(***************************************************************************)
\* every step taken after the load keeps CONFIG equal to the store
C31_ConfigEqualsStore ==
  [][initpc # "load" /\ ConfigEqualsStore(CONFIG, store) =>
       ConfigEqualsStore(CONFIG', store')]_vars

C33_LastHeartbeatOnlyOnSendSuccess ==
  /\ [][PostSettled =>
          \A e \in BagToSet(posts) : \A r \in AllResponses :
            sendHeartbeatDone(e, r) =>
              IF Is2xx(r) THEN lastHeartbeat' = Now /\ isConnected'
                          ELSE lastHeartbeat' = lastHeartbeat]_vars
  /\ [][lastHeartbeat' # lastHeartbeat =>
          /\ PostSettled
          /\ \E e \in BagToSet(posts) : \E r \in AllResponses :
               Is2xx(r) /\ sendHeartbeatDone(e, r)]_vars
  /\ [](lastHeartbeat \in {Null, Now})

\* createBucket() has succeeded, a cycle was dropped or is waiting, a POST
\* is in flight, and no heartbeat has succeeded yet
C33_Witness ==
  /\ lastHeartbeat = Null
  /\ lastEnsure = "ok"
  /\ isConnected
  /\ posts # EmptyBag

(***************************************************************************)
(* C34: the hostname in the body of the createBucket() request equals the  *)
(* hostname the bucket identity was built from: with bucketId =            *)
(* "aw-watcher-web-enhanced_" + h, every createBucket() call sends         *)
(* hostname h, also when h contains the character '_'.                     *)
(* The body takes bucketId.split('_')[1], which ends at the first '_' of   *)
(* h, so this is violated.                                                 *)
(***************************************************************************)
BucketHostname(bucketId) == SubSeq(bucketId, Len(sClient) + 2, Len(bucketId))

C34_BodyHostnameIsBucketHostname ==
  [][EnsureStarted =>
       createBucketBody(CONFIG').hostname = BucketHostname(CONFIG'.bucketId)]_vars

\* the same statement for hostnames without '_'
C34_BodyHostnameWithoutUnderscore ==
  [][EnsureStarted /\ Len(Split(BucketHostname(CONFIG'.bucketId), "_")) = 1 =>
       createBucketBody(CONFIG').hostname = BucketHostname(CONFIG'.bucketId)]_vars

(***************************************************************************)
(* C35: start-up always completes.  No step of init waits for anything     *)
(* but its own request: the settings load can always finish, the info      *)
(* request resolves with the server's hostname or, when it fails, with     *)
(* 'unknown', and in both cases init sets the bucket identity and calls    *)
(* createBucket(); whatever that call's outcome (success, HTTP error,      *)
(* network error), init goes on to create the alarm, start the first       *)
(* cycle and register the listeners.                                       *)
(***************************************************************************)
C35_StartupAlwaysCompletes ==
  /\ [](initpc \in {"load", "info", "bucket", "done"})
  /\ [](initpc = "load" => ENABLED (StorageGetServed \/ LoadSettingsDone))
  /\ [](initpc = "info" =>
          /\ CONFIG.bucketId = NullId
          /\ \A h \in HostnameResults(serverHealthy) : ENABLED GetHostnameDone(h)
          /\ ~serverHealthy => ENABLED GetHostnameDone(sUnknown))
  /\ [](initpc \in {"bucket", "done"} => CONFIG.bucketId # NullId)
  /\ [](initpc = "bucket" =>
          /\ BagIn("init", ensures)
          /\ Cycles < MaxCycles =>
               \A r \in BucketResponses(serverHealthy) :
                 ENABLED createBucketDone("init", r))
  /\ [][\A h \in ServerHosts \cup {sUnknown} :
          GetHostnameDone(h) =>
            /\ CONFIG'.bucketId = sClient \o <<"_">> \o h
            /\ initpc' = "bucket"
            /\ BagIn("init", ensures')]_vars
  /\ [][EnsureSettled =>
          \A r \in AllResponses :
            createBucketDone("init", r) => initpc' = "done" /\ StartCycle]_vars

\* the server was never reachable: init has completed with the hostname
\* 'unknown', Disconnected, and a sampling cycle is running
C35_Witness ==
  /\ Listening
  /\ CONFIG.bucketId = sClient \o <<"_">> \o sUnknown
  /\ lastEnsure = "fail"
  /\ ~isConnected
  /\ lastHeartbeat = Null
  /\ queries > 0

(***************************************************************************)
(* C36: no heartbeat POST is issued while CONFIG.enabled is false, in any  *)
(* connection state and for any trigger.  Disabling does not stop the      *)
(* sampling cycles (triggers still start them, the filter still runs and   *)
(* an accepted snapshot still becomes currentTab) and does not cancel a    *)
(* POST in flight, which resolves as usual.                                *)
(***************************************************************************)
C36_NoPostWhileDisabled ==
  /\ [][PostIssued => CONFIG.enabled]_vars
  /\ [][CycleDispatched /\ ~CONFIG.enabled => posts' = posts]_vars
  /\ [][FilterRuns /\ ~CONFIG.enabled /\ Accepted(activeTab, CONFIG) =>
          /\ currentTab' = activeTab
          /\ BagCardinality(counting') = BagCardinality(counting) + 1]_vars
  /\ [][CONFIG'.enabled # CONFIG.enabled =>
          posts' = posts /\ counting' = counting /\ queries' >= queries]_vars
  /\ [](~CONFIG.enabled =>
          /\ Listening /\ Cycles < MaxCycles => ENABLED AlarmFires
          /\ \A e \in BagToSet(posts) :
               ENABLED (\E r \in AllResponses : sendHeartbeatDone(e, r)))

\* disabled while a POST is in flight and a later cycle, whose snapshot was
\* accepted, waits for dispatch
C36_Witness ==
  /\ ~CONFIG.enabled
  /\ posts # EmptyBag
  /\ counting # EmptyBag
  /\ currentTab # Null

(***************************************************************************)
(* C37: getStatus never exposes a blocked tab.  currentTab is null or a    *)
(* tab whose snapshot passed the filter under the CONFIG of its cycle:     *)
(* it is written only by the filter step of a cycle that accepted the      *)
(* active tab, and a cycle whose snapshot is blocked (internal scheme,     *)
(* incognito, excluded domain or pattern) or that finds no active tab      *)
(* leaves it unchanged; getStatus reports the URL of that tab.             *)
(***************************************************************************)
C37_StatusShowsOnlyAcceptedTab ==
  /\ [](currentTab # Null =>
          /\ StatusReply.currentUrl = Tab(currentTab).url
          /\ ~NoUrlOrInternalScheme(Tab(currentTab).url))
  /\ [][currentTab' # currentTab =>
          FilterRuns /\ Accepted(activeTab, CONFIG) /\ currentTab' = activeTab]_vars
  /\ [][FilterRuns /\ ~Accepted(activeTab, CONFIG) =>
          currentTab' = currentTab /\ counting' = counting]_vars

\* the tab getStatus reports was accepted by an earlier cycle and the
\* settings saved since block it
C37_Witness ==
  /\ currentTab # Null
  /\ currentTab = activeTab
  /\ ~Accepted(activeTab, CONFIG)
  /\ queries = 0
  /\ counting = EmptyBag

(***************************************************************************)
(* C38: redaction is non-interference on single fields.  With trackTitles  *)
(* false the event data built for a tab is the data built for the same tab *)
(* with any other title (the title field is the constant '[redacted]');    *)
(* with trackUrls false the url field is the constant '[redacted]' while   *)
(* domain, path, protocol and category are those of the real URL.  The     *)
(* POST of the cycle carries exactly that data.                            *)
(***************************************************************************)
OtherTitles == {"", "Secret", "Repo"}

C38_RedactionHidesTitleAndUrl ==
  /\ [][FilterRuns /\ BagCardinality(counting') > BagCardinality(counting) =>
          \E d \in BagToSet(counting') :
            /\ counting' = counting (+) One(d)
            /\ ~CONFIG.trackTitles =>
                 /\ d.title = "[redacted]"
                 /\ \A ti \in OtherTitles :
                      d = processTabData([Tab(activeTab) EXCEPT !.title = ti], CONFIG)
            /\ CONFIG.trackTitles => d.title = Tab(activeTab).title
            /\ ~CONFIG.trackUrls => d.url = sRedacted
            /\ CONFIG.trackUrls => d.url = Tab(activeTab).url
            /\ d.domain = ParseURL(Tab(activeTab).url).hostname
            /\ d.path = ParseURL(Tab(activeTab).url).pathname
            /\ d.protocol \o <<":">> = ParseURL(Tab(activeTab).url).protocol
            /\ d.category = categorizeDomain(d.domain, d.path)]_vars
  /\ [][PostIssued =>
          \E d \in BagToSet(counting) :
            posts' = posts (+) One(HeartbeatEvent(SentData(d)))]_vars

\* a POST with a redacted title and the real URL is in flight
C38_Witness ==
  \E e \in BagToSet(posts) :
    /\ e.data.title = "[redacted]"
    /\ e.data.url = UrlSub
    /\ ~CONFIG.trackTitles

C40_UpdateSurvivesLoad ==
  [][LoadSettingsDone
       /\ loadItems.enabled # StorageGet(store, [k \in LoadKeys |-> DefaultConfig[k]]).enabled
     => /\ CONFIG.enabled = store.enabled
        /\ CONFIG'.enabled = CONFIG.enabled]_vars

====
